---- MODULE Spec2Model ----
(***************************************************************************)
(* FinSage AI multi-agent analysis pipeline (backend/agents, backend/models*)
(* /rl_agent.py).                                                          *)
(*                                                                         *)
(* Numbers: Python floats are modelled by exact rationals [n, d] (d > 0,   *)
(* lowest terms).  A standard deviation is carried as its square (the      *)
(* variance), and `x > mean + k*std` is decided on the squares.            *)
(* Dicts are functions; d.get(k, default) is Get(d, k, default).           *)
(***************************************************************************)
EXTENDS Integers, Sequences, FiniteSets, TLC

(* ------------------------------ bounds --------------------------------- *)
\* longest transaction list handed to analyze()
MaxTxns == 2
\* policy outputs are the vectors of multiples of 1/PolicyGrid that sum to 1
PolicyGrid == 4
\* longest run of equal small debits in the monitor's inputs
MaxRepeat == 10

(* --------------------------- float arithmetic -------------------------- *)
Abs(x) == IF x < 0 THEN -x ELSE x

RECURSIVE GCD(_, _)
GCD(a, b) == IF b = 0 THEN a ELSE GCD(b, a % b)

Rat(n, d) ==
    LET s == IF d < 0 THEN -1 ELSE 1
        g == GCD(Abs(n), Abs(d))
    IN  [n |-> (s * n) \div g, d |-> (s * d) \div g]

R(i) == [n |-> i, d |-> 1]

RNeg(a) == [n |-> -a.n, d |-> a.d]

RAdd(a, b) ==
    LET g == GCD(a.d, b.d)
    IN  Rat(a.n * (b.d \div g) + b.n * (a.d \div g), (a.d \div g) * b.d)

RSub(a, b) == RAdd(a, RNeg(b))

RMul(a, b) ==
    LET g1 == GCD(Abs(a.n), b.d)
        g2 == GCD(Abs(b.n), a.d)
    IN  IF a.n = 0 \/ b.n = 0 THEN R(0)
        ELSE [n |-> (a.n \div g1) * (b.n \div g2), d |-> (a.d \div g2) * (b.d \div g1)]

\* a / b for b # 0 (callers guard b = 0 where the code does)
RDiv(a, b) == RMul(a, Rat(b.d, b.n))

RLt(a, b) ==
    LET g == GCD(a.d, b.d)
    IN  a.n * (b.d \div g) < b.n * (a.d \div g)

RLe(a, b) == ~RLt(b, a)
RGt(a, b) == RLt(b, a)
\* a >= that is strict
RGe_strict(a, b) == RLt(b, a)

RGe(a, b) == ~RLt(a, b)
RMin(a, b) == IF RLt(b, a) THEN b ELSE a
RMax(a, b) == IF RLt(a, b) THEN b ELSE a

\* Python round(x, 1): nearest tenth, ties to even
RoundTenths(a) ==
    LET num == 10 * a.n
        q   == num \div a.d
        r   == num % a.d
        k   == IF 2 * r > a.d THEN q + 1
               ELSE IF 2 * r < a.d THEN q
               ELSE IF q % 2 = 0 THEN q ELSE q + 1
    IN  Rat(k, 10)

RECURSIVE SumSeq(_)
SumSeq(s) == IF s = <<>> THEN 0 ELSE Head(s) + SumSeq(Tail(s))

RECURSIVE RSumSeq(_)
RSumSeq(s) == IF s = <<>> THEN R(0) ELSE RAdd(Head(s), RSumSeq(Tail(s)))

Map(f(_), s) == [i \in 1..Len(s) |-> f(s[i])]

(* ------------------------------- dicts --------------------------------- *)
EmptyDict == [k \in {} |-> 0]

Get(d, k, default) == IF k \in DOMAIN d THEN d[k] ELSE default

\* a test that takes every dict, {} included, as data
Truthy_always(d) == TRUE

\* Python truthiness of a dict: `not d` is true for {}
Truthy(d) == DOMAIN d # {}

\* JSON values that are not dicts, and isinstance(v, dict)
PyList(items) == [py_list |-> items]
PyStr(text) == [py_str |-> text]
IsDict(v) == "py_list" \notin DOMAIN v /\ "py_str" \notin DOMAIN v

\* list.sort(key=...) / sorted(key=...): stable, ascending in the integer keys.
\* keys[i] is the key of the i-th element; the result lists the indices.
RECURSIVE InsertIdx(_, _, _)
InsertIdx(i, idx, keys) ==
    IF idx = <<>> THEN <<i>>
    ELSE IF keys[i] < keys[Head(idx)] THEN <<i>> \o idx
    ELSE <<Head(idx)>> \o InsertIdx(i, Tail(idx), keys)

RECURSIVE SortIdxUpTo(_, _)
SortIdxUpTo(m, keys) ==
    IF m = 0 THEN <<>> ELSE InsertIdx(m, SortIdxUpTo(m - 1, keys), keys)

StableSort(s, keys) ==
    LET idx == SortIdxUpTo(Len(s), keys)
    IN  [j \in 1..Len(s) |-> s[idx[j]]]

(* ---------------- raising: exceptions as values ------------------------ *)
Exc(kind) == [exc |-> kind]
IsExc(v) == DOMAIN v = {"exc"}
\* the value of a call that may raise and returns a list
Ok(v) == [value |-> v]

\* Python a / b on floats
PyDiv(a, b) == IF b.n = 0 THEN Exc("ZeroDivisionError") ELSE RDiv(a, b)

(* --------------- agents/financial_analyst.py --------------------------- *)
\* a number known by its square: np.std(xs), and np.std(xs) / np.mean(xs)
SqrtOf(q) == [sqrt_of |-> q]

\* sqrt(x.sqrt_of) < c, for a rational c >= 0
SqrtLt(x, c) == RLt(x.sqrt_of, RMul(c, c))

Amounts(txns) == Map(LAMBDA t : t.amount, txns)
\* outflows summed with their sign
AbsAmounts_signed(txns) == Map(LAMBDA t : t.amount, txns)

AbsAmounts(txns) == Map(LAMBDA t : Abs(t.amount), txns)
SumSq(xs) == SumSeq(Map(LAMBDA x : x * x, xs))

\* np.mean(xs), xs non-empty
Mean(xs) == Rat(SumSeq(xs), Len(xs))
\* np.std(xs) ** 2 (population variance), xs non-empty
Variance(xs) == Rat(Len(xs) * SumSq(xs) - SumSeq(xs) * SumSeq(xs), Len(xs) * Len(xs))

IncomeVolatility(income_amounts) ==
    IF Len(income_amounts) > 1
    THEN IF RGt(Mean(income_amounts), R(0))
         THEN SqrtOf(RDiv(Variance(income_amounts),
                          RMul(Mean(income_amounts), Mean(income_amounts))))
         ELSE SqrtOf(R(0))
    ELSE SqrtOf(R(0))

\* savings_rate without the `if total_income > 0` guard
SavingsRate_unguarded(net_cash_flow, total_income) ==
    LET q == PyDiv(R(net_cash_flow), R(total_income))
    IN  IF IsExc(q) THEN q ELSE RMul(q, R(100))

SavingsRate(net_cash_flow, total_income) ==
    IF total_income > 0
    THEN LET q == PyDiv(R(net_cash_flow), R(total_income))
         IN  IF IsExc(q) THEN q ELSE RMul(q, R(100))
    ELSE R(0)

_calculate_metrics(transactions) ==
    LET income_txns    == SelectSeq(transactions, LAMBDA t : t.type = "credit")
        expense_txns   == SelectSeq(transactions, LAMBDA t : t.type = "debit")
        total_income   == SumSeq(Amounts(income_txns))
        total_expenses == SumSeq(AbsAmounts(expense_txns))
        net_cash_flow  == total_income - total_expenses
    IN  [ total_income      |-> total_income,
          total_expenses    |-> total_expenses,
          net_cash_flow     |-> net_cash_flow,
          savings_rate      |-> SavingsRate(net_cash_flow, total_income),
          income_volatility |-> IncomeVolatility(Amounts(income_txns)),
          avg_transaction   |-> IF transactions # <<>>
                                THEN PyDiv(R(total_income + total_expenses), R(Len(transactions)))
                                ELSE R(0),
          transaction_count |-> Len(transactions),
          income_count      |-> Len(income_txns),
          expense_count     |-> Len(expense_txns) ]

\* FinancialAnalystAgent._fallback_analysis: the three key findings, by name
_fallback_analysis(metrics) ==
    [ key_findings |-> <<"Savings rate", "Income volatility", "transactions processed">>,
      source       |-> "fallback" ]

\* a stage that also clears the preferences
Returned_clears(state) ==
    [state |-> [state EXCEPT !.user_preferences = EmptyDict], exc |-> "none"]

\* What a stage's process() does: the state it leaves and the exception it
\* raises ("none" when it returns normally).
Returned(state) == [state |-> state, exc |-> "none"]
Raised(state, kind) == [state |-> state, exc |-> kind]

\* Outcomes of invoke_llm + extract_json:
\*   "none"     no parseable JSON (also the offline provider): extract_json is None
\*   "json"     a dict of the requested shape
\*   "non_text" the response content is not a string: re.search raises TypeError
LLM == {"none", "json", "non_text"}

\* FinancialAnalystAgent.process
AnalystProcess(state, llm) ==
    IF state.transactions = <<>>
    THEN Returned([state EXCEPT !.financial_analysis =
              [error |-> "No transaction data available", metrics |-> EmptyDict]])
    ELSE LET metrics == _calculate_metrics(state.transactions)
             analysis_data == IF llm = "json"
                              THEN [key_findings |-> <<"llm finding">>, source |-> "llm"]
                              ELSE _fallback_analysis(metrics)
         IN  IF IsExc(metrics.savings_rate) \/ IsExc(metrics.avg_transaction)
             THEN Raised(state, "ZeroDivisionError")
             ELSE IF llm = "non_text" THEN Raised(state, "TypeError")
             ELSE Returned([state EXCEPT !.financial_analysis =
                      [metrics |-> metrics, insights |-> analysis_data]])

(* ------------------- agents/risk_assessor.py --------------------------- *)
Risk(score, level) == [score |-> score, level |-> level]

IncomeStabilityRisk(metrics) ==
    LET income_volatility == Get(metrics, "income_volatility", SqrtOf(R(0)))
    IN  IF SqrtLt(income_volatility, Rat(2, 10)) THEN Risk(Rat(1, 10), "Low")
        ELSE IF SqrtLt(income_volatility, Rat(4, 10)) THEN Risk(Rat(3, 10), "Medium")
        ELSE IF SqrtLt(income_volatility, Rat(6, 10)) THEN Risk(Rat(6, 10), "High")
        ELSE Risk(Rat(9, 10), "Critical")

CashFlowRisk(metrics) ==
    LET net_cash_flow == R(Get(metrics, "net_cash_flow", 0))
        total_income  == R(Get(metrics, "total_income", 1))
    IN  IF RGt(net_cash_flow, R(0)) /\ RGt(net_cash_flow, RMul(total_income, Rat(2, 10)))
        THEN Risk(Rat(1, 10), "Low")
        ELSE IF RGt(net_cash_flow, R(0)) THEN Risk(Rat(3, 10), "Medium")
        ELSE IF RGt(net_cash_flow, RMul(RNeg(total_income), Rat(1, 10)))
        THEN Risk(Rat(6, 10), "High")
        ELSE Risk(Rat(9, 10), "Critical")

SavingsRisk(metrics) ==
    LET savings_rate == Get(metrics, "savings_rate", R(0))
    IN  IF RGe(savings_rate, R(20)) THEN Risk(Rat(1, 10), "Low")
        ELSE IF RGe(savings_rate, R(10)) THEN Risk(Rat(3, 10), "Medium")
        ELSE IF RGe(savings_rate, R(0)) THEN Risk(Rat(6, 10), "High")
        ELSE Risk(Rat(9, 10), "Critical")

emergency_months == 0

\* a table whose comparisons are turned around
EmergencyFundRisk_inverted ==
    IF emergency_months <= 6 THEN Risk(Rat(1, 10), "Low")
    ELSE IF emergency_months <= 3 THEN Risk(Rat(3, 10), "Medium")
    ELSE IF emergency_months <= 1 THEN Risk(Rat(6, 10), "High")
    ELSE Risk(Rat(9, 10), "Critical")

EmergencyFundRisk ==
    IF emergency_months >= 6 THEN Risk(Rat(1, 10), "Low")
    ELSE IF emergency_months >= 3 THEN Risk(Rat(3, 10), "Medium")
    ELSE IF emergency_months >= 1 THEN Risk(Rat(6, 10), "High")
    ELSE Risk(Rat(9, 10), "Critical")

\* dict insertion order of `risks`
RiskNames == <<"income_stability_risk", "cash_flow_risk", "savings_risk", "emergency_fund_risk">>

_calculate_risk_scores(metrics) ==
    [ income_stability_risk |-> IncomeStabilityRisk(metrics),
      cash_flow_risk        |-> CashFlowRisk(metrics),
      savings_risk          |-> SavingsRisk(metrics),
      emergency_fund_risk   |-> EmergencyFundRisk ]

\* weights that do not sum to 1
weights_heavy_savings ==
    [ income_stability_risk |-> Rat(3, 10),
      cash_flow_risk        |-> Rat(3, 10),
      savings_risk          |-> Rat(3, 10),
      emergency_fund_risk   |-> Rat(2, 10) ]

weights ==
    [ income_stability_risk |-> Rat(3, 10),
      cash_flow_risk        |-> Rat(3, 10),
      savings_risk          |-> Rat(2, 10),
      emergency_fund_risk   |-> Rat(2, 10) ]

_calculate_overall_risk(risks) ==
    RSumSeq([i \in 1..Len(RiskNames) |->
               IF RiskNames[i] \in DOMAIN risks
               THEN RMul(risks[RiskNames[i]].score, weights[RiskNames[i]])
               ELSE R(0)])

Timeline(name) ==
    IF name = "income_stability_risk" THEN "3-months"
    ELSE IF name = "cash_flow_risk" THEN "immediate"
    ELSE IF name = "savings_risk" THEN "1-month"
    ELSE "3-months"

\* thresholds that include their upper end
OverallLevel_inclusive(overall_score) ==
    IF RLe(overall_score, Rat(3, 10)) THEN "Low"
    ELSE IF RLe(overall_score, Rat(5, 10)) THEN "Medium"
    ELSE IF RLe(overall_score, Rat(7, 10)) THEN "High"
    ELSE "Critical"

OverallLevel(overall_score) ==
    IF RLt(overall_score, Rat(3, 10)) THEN "Low"
    ELSE IF RLt(overall_score, Rat(5, 10)) THEN "Medium"
    ELSE IF RLt(overall_score, Rat(7, 10)) THEN "High"
    ELSE "Critical"

\* a ranking by ascending score
_fallback_assessment_ascending(risks) ==
    LET keys == [i \in 1..Len(RiskNames) |-> RMul(risks[RiskNames[i]].score, R(10)).n]
        sorted_risks == StableSort(RiskNames, keys)
    IN  [ overall_risk_level |-> OverallLevel(_calculate_overall_risk(risks)),
          priority_risks |-> [j \in 1..3 |->
              [ risk       |-> sorted_risks[j],
                severity   |-> risks[sorted_risks[j]].level,
                mitigation |-> sorted_risks[j],
                timeline   |-> Timeline(sorted_risks[j]) ]] ]

_fallback_assessment(risks) ==
    LET keys == [i \in 1..Len(RiskNames) |-> -(RMul(risks[RiskNames[i]].score, R(10)).n)]
        sorted_risks == StableSort(RiskNames, keys)
    IN  [ overall_risk_level |-> OverallLevel(_calculate_overall_risk(risks)),
          priority_risks |-> [j \in 1..3 |->
              [ risk       |-> sorted_risks[j],
                severity   |-> risks[sorted_risks[j]].level,
                mitigation |-> sorted_risks[j],
                timeline   |-> Timeline(sorted_risks[j]) ]] ]

\* Outcomes of the text service for the Risk Assessor: those of LLM, and
\*   "json_list"      valid JSON that is not a dict (a non-empty list)
\*   "json_bad_items" a dict whose priority_risks items are strings, not dicts
RiskLLM == LLM \cup {"json_list", "json_bad_items"}

LLMAssessment(llm) ==
    IF llm = "json_list" THEN PyList(<<"cash flow">>)
    ELSE IF llm = "json_bad_items"
    THEN [overall_risk_level |-> "High", priority_risks |-> <<PyStr("cash flow")>>]
    ELSE [overall_risk_level |-> "High",
          priority_risks |-> <<[risk |-> "llm risk", severity |-> "High",
                                mitigation |-> "llm mitigation", timeline |-> "immediate"]>>]


\* RiskAssessorAgent.process
RiskProcess(state, llm) ==
    LET analysis == state.financial_analysis
        metrics  == Get(analysis, "metrics", EmptyDict)
    IN  IF ~Truthy(metrics)
        THEN Returned([state EXCEPT !.risk_assessment = [error |-> "No data for risk assessment"]])
        ELSE LET risks == _calculate_risk_scores(metrics)
                 expense_ratio == PyDiv(R(Get(metrics, "total_expenses", 0)),
                                        R(Get(metrics, "total_income", 1)))
                 ai_assessment == IF llm = "none" THEN _fallback_assessment(risks)
                                  ELSE LLMAssessment(llm)
                 written == [state EXCEPT !.risk_assessment =
                               [ risk_scores        |-> risks,
                                 ai_assessment      |-> ai_assessment,
                                 overall_risk_score |-> _calculate_overall_risk(risks) ]]
             IN  IF IsExc(expense_ratio) THEN Raised(state, "ZeroDivisionError")
                 ELSE IF llm = "non_text" THEN Raised(state, "TypeError")
                 ELSE IF ~IsDict(ai_assessment) THEN Raised(written, "AttributeError")
                 ELSE Returned(written)

(* ---------------------- models/rl_agent.py ----------------------------- *)
DEFAULT_CATEGORIES ==
    <<"food_groceries", "transport", "utilities", "healthcare",
      "entertainment", "education", "savings", "miscellaneous">>

Index(seq, x) == CHOOSE i \in 1..Len(seq) : seq[i] = x

_adjust_for_risk(probs, risk_tolerance) ==
    LET savings_idx == Index(DEFAULT_CATEGORIES, "savings")
        ent_idx     == Index(DEFAULT_CATEGORIES, "entertainment")
    IN  IF risk_tolerance = "low"
        THEN [probs EXCEPT ![savings_idx] = RMul(@, Rat(13, 10)),
                           ![ent_idx]     = RMul(@, Rat(7, 10))]
        ELSE IF risk_tolerance = "high"
        THEN [probs EXCEPT ![savings_idx] = RMul(@, Rat(8, 10)),
                           ![ent_idx]     = RMul(@, Rat(12, 10))]
        ELSE probs

essentials == <<"food_groceries", "utilities", "healthcare", "savings">>
essential_min ==
    [ food_groceries |-> Rat(20, 100), utilities |-> Rat(10, 100),
      healthcare     |-> Rat(5, 100),  savings   |-> Rat(10, 100) ]
non_essential == <<"entertainment", "miscellaneous">>

\* the inner loop over non_essential[j..], with the deficit still open
RECURSIVE ReduceDonors(_, _, _)
ReduceDonors(adjusted, deficit, j) ==
    IF j > Len(non_essential) THEN adjusted
    ELSE LET ne_idx    == Index(DEFAULT_CATEGORIES, non_essential[j])
             reduction == RMin(RMul(adjusted[ne_idx], Rat(1, 2)),
                               RDiv(deficit, R(Len(non_essential))))
             adj2      == [adjusted EXCEPT ![ne_idx] = RSub(@, reduction)]
             deficit2  == RSub(deficit, reduction)
         IN  IF RLe(deficit2, R(0)) THEN adj2
             ELSE ReduceDonors(adj2, deficit2, j + 1)

\* the outer loop over essentials[i..]
RECURSIVE EnforceFrom(_, _)
EnforceFrom(adjusted, i) ==
    IF i > Len(essentials) THEN adjusted
    ELSE LET idx     == Index(DEFAULT_CATEGORIES, essentials[i])
             min_pct == essential_min[essentials[i]]
         IN  IF RLt(adjusted[idx], min_pct)
             THEN EnforceFrom(ReduceDonors([adjusted EXCEPT ![idx] = min_pct],
                                           RSub(min_pct, adjusted[idx]), 1), i + 1)
             ELSE EnforceFrom(adjusted, i + 1)

_enforce_essential_minimums(probs) == EnforceFrom(probs, 1)

\* one iteration of the outer loop: essentials[i] and its deficit
EnforceOne(adjusted, i) ==
    LET idx     == Index(DEFAULT_CATEGORIES, essentials[i])
        min_pct == essential_min[essentials[i]]
    IN  IF RLt(adjusted[idx], min_pct)
        THEN ReduceDonors([adjusted EXCEPT ![idx] = min_pct], RSub(min_pct, adjusted[idx]), 1)
        ELSE adjusted

\* whether min() picks adjusted[ne_idx] * 0.5 for a donor of non_essential[j..]
RECURSIVE DonorCapBinds(_, _, _)
DonorCapBinds(adjusted, deficit, j) ==
    IF j > Len(non_essential) THEN FALSE
    ELSE LET ne_idx    == Index(DEFAULT_CATEGORIES, non_essential[j])
             half      == RMul(adjusted[ne_idx], Rat(1, 2))
             share     == RDiv(deficit, R(Len(non_essential)))
             reduction == RMin(half, share)
             adj2      == [adjusted EXCEPT ![ne_idx] = RSub(@, reduction)]
             deficit2  == RSub(deficit, reduction)
         IN  \/ RLt(half, share)
             \/ RGt(deficit2, R(0)) /\ DonorCapBinds(adj2, deficit2, j + 1)

\* recommend_budget without the renormalisation
Normalize_skipped(probs) == probs

\* allocation_probs / allocation_probs.sum()
Normalize(probs) ==
    LET total == RSumSeq(probs)
    IN  [i \in 1..Len(probs) |-> RDiv(probs[i], total)]

\* a recommend_budget that enforces the minimums before the risk adjustment
recommend_budget_enforce_first(policy_probs, total_budget, risk_tolerance) ==
    LET allocation_probs ==
            Normalize(_adjust_for_risk(_enforce_essential_minimums(policy_probs), risk_tolerance))
    IN  [c \in {DEFAULT_CATEGORIES[i] : i \in 1..Len(DEFAULT_CATEGORIES)} |->
            RMul(allocation_probs[Index(DEFAULT_CATEGORIES, c)], total_budget)]

\* RLAgent.recommend_budget; policy_probs is the output of policy_net
recommend_budget(policy_probs, total_budget, risk_tolerance) ==
    LET allocation_probs ==
            Normalize(_enforce_essential_minimums(_adjust_for_risk(policy_probs, risk_tolerance)))
    IN  [c \in {DEFAULT_CATEGORIES[i] : i \in 1..Len(DEFAULT_CATEGORIES)} |->
            RMul(allocation_probs[Index(DEFAULT_CATEGORIES, c)], total_budget)]

\* sum(budget.values())
RECURSIVE SumValues(_)
SumValues(budget) ==
    IF DOMAIN budget = {} THEN R(0)
    ELSE LET c == CHOOSE c \in DOMAIN budget : TRUE
         IN  RAdd(budget[c], SumValues([k \in DOMAIN budget \ {c} |-> budget[k]]))

\* RLAgent.explain_recommendation: divides by the allocated total
explain_recommendation(budget_allocation) ==
    LET total == SumValues(budget_allocation)
        savings_pct == PyDiv(Get(budget_allocation, "savings", R(0)), total)
    IN  IF IsExc(savings_pct) THEN savings_pct
        ELSE IF RGe(RMul(savings_pct, R(100)), R(20)) THEN Ok(<<"savings excellent">>)
        ELSE IF RGe(RMul(savings_pct, R(100)), R(10)) THEN Ok(<<"savings solid">>)
        ELSE Ok(<<"savings low">>)

(* ------------------- agents/budget_optimizer.py ------------------------ *)
_rule_based_allocation(total_budget) ==
    [ food_groceries |-> RMul(total_budget, Rat(25, 100)),
      rent_utilities |-> RMul(total_budget, Rat(30, 100)),
      transportation |-> RMul(total_budget, Rat(10, 100)),
      healthcare     |-> RMul(total_budget, Rat(8, 100)),
      entertainment  |-> RMul(total_budget, Rat(10, 100)),
      personal_care  |-> RMul(total_budget, Rat(5, 100)),
      education      |-> RMul(total_budget, Rat(7, 100)),
      miscellaneous  |-> RMul(total_budget, Rat(5, 100)) ]

_fallback_recommendations(metrics) ==
    LET savings_rate == Get(metrics, "savings_rate", R(0))
    IN  [ adjustments |->
            (IF RLt(savings_rate, R(15))
             THEN <<"Reduce discretionary spending", "Look for cheaper alternatives">>
             ELSE <<>>)
            \o <<"Set up automatic savings transfer", "Track daily expenses">> ]

\* the try block of process: the allocation, or the exception that sends the
\* code to its except branch.  rl_available is FALSE when get_rl_agent cannot
\* be imported or built.
TryRLAgent(rl_available, policy_probs, spendable_budget, risk_tolerance) ==
    IF ~rl_available THEN Exc("ImportError")
    ELSE LET budget_allocation == recommend_budget(policy_probs, spendable_budget, risk_tolerance)
             explanations == explain_recommendation(budget_allocation)
         IN  IF IsExc(explanations) THEN explanations
             ELSE [budget_allocation |-> budget_allocation, explanations |-> explanations.value]

\* the allocation process() ends up with, on either branch
BudgetAllocation(rl_available, policy_probs, spendable_budget, risk_tolerance) ==
    LET rl == TryRLAgent(rl_available, policy_probs, spendable_budget, risk_tolerance)
    IN  IF IsExc(rl)
        THEN [budget_allocation |-> _rule_based_allocation(spendable_budget),
              explanations |-> <<"Rule-based allocation applied">>]
        ELSE rl

\* BudgetOptimizerAgent.process
OptimizerProcess(state, rl_available, policy_probs, llm) ==
    LET analysis == state.financial_analysis
        metrics  == Get(analysis, "metrics", EmptyDict)
    IN  IF ~Truthy(metrics)
        THEN Returned([state EXCEPT !.budget_recommendation =
                          [error |-> "No financial data for optimization"]])
        ELSE LET total_income == R(Get(metrics, "total_income", 0))
                 preferences  == state.user_preferences
                 target_savings_rate == Get(preferences, "target_savings_rate", Rat(2, 10))
                 risk_tolerance == Get(preferences, "risk_tolerance", "medium")
                 target_savings == RMul(total_income, target_savings_rate)
                 spendable_budget == RSub(total_income, target_savings)
                 alloc == BudgetAllocation(rl_available, policy_probs, spendable_budget, risk_tolerance)
                 ai_recommendations == IF llm = "json"
                                       THEN [adjustments |-> <<"llm adjustment">>]
                                       ELSE _fallback_recommendations(metrics)
             IN  IF llm = "non_text" THEN Raised(state, "TypeError")
                 ELSE Returned([state EXCEPT !.budget_recommendation =
                        [ budget_allocation  |-> alloc.budget_allocation,
                          target_savings     |-> target_savings,
                          spendable_budget   |-> spendable_budget,
                          ai_recommendations |-> ai_recommendations,
                          rl_explanations    |-> alloc.explanations,
                          confidence         |-> Rat(8, 10) ]])

(* --------------------- agents/savings_coach.py ------------------------- *)
_fallback_strategy ==
    [ micro_actions |-> <<"Set up auto-transfer", "Brew coffee at home",
                          "Cancel one unused subscription", "Pack lunch twice",
                          "Use UPI cashback offers">> ]

\* SavingsCoachAgent.process
CoachProcess(state, llm) ==
    LET analysis == state.financial_analysis
        metrics  == Get(analysis, "metrics", EmptyDict)
        budget   == state.budget_recommendation
        risks    == state.risk_assessment
    IN  IF ~Truthy(metrics)
        THEN Returned([state EXCEPT !.savings_strategy = [error |-> "No data for savings strategy"]])
        ELSE LET target_savings == Get(budget, "target_savings", R(0))
                 strategy_data  == IF llm = "json"
                                   THEN [micro_actions |-> <<"llm action">>]
                                   ELSE _fallback_strategy
             IN  \* the prompt reads risks.get('ai_assessment', {}).get(...)
                 IF ~IsDict(Get(risks, "ai_assessment", EmptyDict))
                 THEN Raised(state, "AttributeError")
                 ELSE IF llm = "non_text" THEN Raised(state, "TypeError")
                 ELSE Returned([state EXCEPT !.savings_strategy =
                        [ strategy |-> strategy_data,
                          current_progress |->
                            [ savings_rate    |-> Get(metrics, "savings_rate", R(0)),
                              monthly_savings |-> Get(metrics, "net_cash_flow", 0),
                              target_savings  |-> target_savings ] ]])

(* ------------------ agents/transaction_monitor.py ---------------------- *)
\* np.mean, np.std and the two thresholds are binary64 values: each is the
\* exact value rounded, so a computed threshold lies a few units in the last
\* place below or above the exact mean + k * std
Rounding == {"below", "above"}

\* thresholds of mean + 2 std and mean + 2.5 std
AboveMeanPlus_half_less(amount, mean, variance, k, rounding) ==
    LET d == RSub(R(amount), mean)
        j == RSub(k, Rat(1, 2))
    IN  RGt(d, R(0)) /\ RGt(RMul(d, d), RMul(RMul(j, j), variance))

\* amount > mean + k * std, with std known by its square `variance`.  The
\* amounts of the model are small integers, so amount and the exact threshold
\* are either equal or far further apart than the rounding error; when they
\* are equal and the amounts are spread (std > 0), the comparison is decided
\* by the side the computed threshold fell on.  When all amounts are equal
\* every deviation from the computed mean is the same d, std is |d| and the
\* threshold mean + k |d| is never below the amount.
AboveMeanPlus(amount, mean, variance, k, rounding) ==
    LET d == RSub(R(amount), mean)
    IN  /\ RGt(d, R(0))
        /\ \/ RGt(RMul(d, d), RMul(RMul(k, k), variance))
           \/ /\ RMul(d, d) = RMul(RMul(k, k), variance)
              /\ rounding = "below"

_detect_anomalies(transactions, rounding) ==
    LET debits   == SelectSeq(transactions, LAMBDA t : t.type = "debit")
        expenses == AbsAmounts(debits)
        mean_expense == Mean(expenses)
        var_expense  == Variance(expenses)
        Alert(txn) ==
            IF AboveMeanPlus(Abs(txn.amount), mean_expense, var_expense, R(3), rounding)
            THEN <<[type |-> "anomaly", severity |-> "urgent", transaction |-> txn]>>
            ELSE IF AboveMeanPlus(Abs(txn.amount), mean_expense, var_expense, Rat(5, 2), rounding)
            THEN <<[type |-> "anomaly", severity |-> "warning", transaction |-> txn]>>
            ELSE <<>>
        RECURSIVE Scan(_)
        Scan(i) == IF i > Len(debits) THEN <<>> ELSE Alert(debits[i]) \o Scan(i + 1)
    IN  IF Len(expenses) < 5 THEN <<>> ELSE Scan(1)

RECURSIVE Distinct(_)

\* a grouping that keeps one key per transaction
Distinct_keep_repeats(s) == s

\* the keys of a dict filled in this order, without repeats
Distinct(s) ==
    IF s = <<>> THEN <<>>
    ELSE LET rest == Distinct(SubSeq(s, 1, Len(s) - 1))
             x    == s[Len(s)]
         IN  IF \E i \in 1..Len(rest) : rest[i] = x THEN rest ELSE Append(rest, x)

_check_budget_overruns(transactions, budget) ==
    LET budget_allocation == Get(budget, "budget_allocation", EmptyDict)
        debits     == SelectSeq(transactions, LAMBDA t : t.type = "debit")
        categories == Distinct(Map(LAMBDA t : t.category, debits))
        Spent(cat) == SumSeq(AbsAmounts(SelectSeq(debits, LAMBDA t : t.category = cat)))
        Alert(category) ==
            LET spent    == R(Spent(category))
                budgeted == Get(budget_allocation, category, R(0))
                overspend_pct == RMul(RDiv(RSub(spent, budgeted), budgeted), R(100))
                alert(sev) == [ type |-> "budget_overrun", severity |-> sev,
                                category |-> category, spent |-> spent,
                                budgeted |-> budgeted, overspend_pct |-> overspend_pct ]
            IN  IF budgeted = R(0) THEN <<>>
                ELSE IF RGt(overspend_pct, R(20)) THEN <<alert("urgent")>>
                ELSE IF RGt(overspend_pct, R(10)) THEN <<alert("warning")>>
                ELSE <<>>
        RECURSIVE Scan(_)
        Scan(i) == IF i > Len(categories) THEN <<>> ELSE Alert(categories[i]) \o Scan(i + 1)
    IN  IF ~Truthy(budget_allocation) THEN <<>> ELSE Scan(1)

\* Python round(x, 2): nearest hundredth, ties to even
RoundHundredths(a) ==
    LET num == 100 * a.n
        q   == num \div a.d
        r   == num % a.d
        k   == IF 2 * r > a.d THEN q + 1
               ELSE IF 2 * r < a.d THEN q
               ELSE IF q % 2 = 0 THEN q ELSE q + 1
    IN  Rat(k, 100)

\* txn.get("amount", 0): whole units, plus thousandths where the amount has any
AmountOf(txn) == Rat(1000 * txn.amount + Get(txn, "thousandths", 0), 1000)

\* a grouping key with the amount as it is
DupKey_exact(txn) == <<AmountOf(txn), txn.date, txn.category>>

\* the grouping key f"{amount}_{date_key}_{category}": the rounded amount, the
\* day of the datetime (its time of day is dropped) and the category
DupKey(txn) == <<RoundHundredths(AmountOf(txn)), txn.date, txn.category>>

_check_duplicates(transactions) ==
    LET keys == Distinct(Map(DupKey, transactions))
        Group(key) == SelectSeq(transactions, LAMBDA t : DupKey(t) = key)
        Alert(key) ==
            IF Len(Group(key)) > 1
            THEN <<[ type |-> "duplicate", severity |-> "info",
                     transactions |-> Group(key), count |-> Len(Group(key)) ]>>
            ELSE <<>>
        RECURSIVE Scan(_)
        Scan(i) == IF i > Len(keys) THEN <<>> ELSE Alert(keys[i]) \o Scan(i + 1)
    IN  Scan(1)

\* a severity table that ranks warning before urgent
_severity_order_swapped(severity) ==
    IF severity = "warning" THEN 0
    ELSE IF severity = "urgent" THEN 1
    ELSE IF severity = "info" THEN 2
    ELSE 3

_severity_order(severity) ==
    IF severity = "urgent" THEN 0
    ELSE IF severity = "warning" THEN 1
    ELSE IF severity = "info" THEN 2
    ELSE 3

\* all_alerts.sort(key=lambda x: self._severity_order(x.get("severity", "info")))
SortAlerts(all_alerts) ==
    StableSort(all_alerts,
               [i \in 1..Len(all_alerts) |-> _severity_order(Get(all_alerts[i], "severity", "info"))])

\* anomalies + budget_alerts + duplicate_alerts, before the sort
DetectedAlerts(state, rounding) ==
    _detect_anomalies(state.transactions, rounding)
    \o _check_budget_overruns(state.transactions, state.budget_recommendation)
    \o _check_duplicates(state.transactions)

\* TransactionMonitorAgent.process
MonitorProcess(state, llm, rounding) ==
    IF state.transactions = <<>>
    THEN Returned([state EXCEPT !.monitoring_alerts =
             [alerts |-> <<>>, summary |-> "No transactions to monitor"]])
    ELSE LET all_alerts == DetectedAlerts(state, rounding)
             ai_interpretation ==
                 IF all_alerts # <<>>
                 THEN IF llm = "json" THEN [summary |-> "llm summary", action_needed |-> TRUE]
                      ELSE [summary |-> "Monitoring alerts detected", action_needed |-> TRUE]
                 ELSE [summary |-> "All transactions normal", action_needed |-> FALSE]
             sorted == SortAlerts(all_alerts)
         IN  IF all_alerts # <<>> /\ llm = "non_text" THEN Raised(state, "TypeError")
             ELSE Returned([state EXCEPT !.monitoring_alerts =
                    [ alerts            |-> sorted,
                      alert_count       |-> Len(sorted),
                      ai_interpretation |-> ai_interpretation,
                      requires_action   |-> \E i \in 1..Len(sorted) :
                                               sorted[i].severity \in {"urgent", "warning"} ]])

(* --------------------- agents/orchestrator.py -------------------------- *)
\* AgentState as analyze() builds it (timestamps are left out)
initial_state(user_id, transactions, user_preferences) ==
    [ user_id               |-> user_id,
      transactions          |-> transactions,
      user_preferences      |-> user_preferences,
      financial_analysis    |-> EmptyDict,
      budget_recommendation |-> EmptyDict,
      risk_assessment       |-> EmptyDict,
      savings_strategy      |-> EmptyDict,
      monitoring_alerts     |-> EmptyDict,
      current_agent         |-> "",
      errors                |-> <<>>,
      comprehensive_report  |-> EmptyDict ]

\* a score that loses 5 points for every recorded error
_calculate_health_score_penalised(state) ==
    LET analysis == state.financial_analysis
        metrics  == Get(analysis, "metrics", EmptyDict)
        risks    == state.risk_assessment
        savings_rate  == Get(metrics, "savings_rate", R(0))
        savings_score == RMin(RMul(savings_rate, Rat(15, 10)), R(30))
        net_cash_flow == R(Get(metrics, "net_cash_flow", 0))
        total_income  == R(Get(metrics, "total_income", 1))
        cash_flow_ratio == IF RGt(total_income, R(0)) THEN RDiv(net_cash_flow, total_income) ELSE R(0)
        cash_flow_score == RMin(RMax(RMul(cash_flow_ratio, R(100)), R(0)), R(25))
        overall_risk == Get(risks, "overall_risk_score", Rat(5, 10))
        risk_score   == RMul(RSub(R(1), overall_risk), R(25))
        txn_count    == R(Get(metrics, "transaction_count", 0))
        tracking_score == RMin(RMul(RDiv(txn_count, R(30)), R(20)), R(20))
        total_score  == RAdd(RAdd(savings_score, cash_flow_score), RAdd(risk_score, tracking_score))
    IN  RoundTenths(RSub(total_score, R(5 * Len(state.errors))))

_calculate_health_score(state) ==
    LET analysis == state.financial_analysis
        metrics  == Get(analysis, "metrics", EmptyDict)
        risks    == state.risk_assessment
        savings_rate  == Get(metrics, "savings_rate", R(0))
        savings_score == RMin(RMul(savings_rate, Rat(15, 10)), R(30))
        net_cash_flow == R(Get(metrics, "net_cash_flow", 0))
        total_income  == R(Get(metrics, "total_income", 1))
        cash_flow_ratio == IF RGt(total_income, R(0)) THEN RDiv(net_cash_flow, total_income) ELSE R(0)
        cash_flow_score == RMin(RMax(RMul(cash_flow_ratio, R(100)), R(0)), R(25))
        overall_risk == Get(risks, "overall_risk_score", Rat(5, 10))
        risk_score   == RMul(RSub(R(1), overall_risk), R(25))
        txn_count    == R(Get(metrics, "transaction_count", 0))
        tracking_score == RMin(RMul(RDiv(txn_count, R(30)), R(20)), R(20))
        total_score  == RAdd(RAdd(savings_score, cash_flow_score), RAdd(risk_score, tracking_score))
    IN  RoundTenths(total_score)

\* a slice that keeps the whole list
Take_everything(s, m) == s

Take(s, m) == SubSeq(s, 1, IF Len(s) < m THEN Len(s) ELSE m)

\* _get_priority_actions; raises AttributeError on a non-dict ai_assessment or
\* a non-dict priority risk
_get_priority_actions(state) ==
    LET savings       == state.savings_strategy
        strategy      == Get(savings, "strategy", EmptyDict)
        micro_actions == Get(strategy, "micro_actions", <<>>)
        from_savings  == Take(micro_actions, 2)
        risks         == state.risk_assessment
        ai_assessment == Get(risks, "ai_assessment", EmptyDict)
        priority_risks == Get(ai_assessment, "priority_risks", <<>>)
        first         == Take(priority_risks, 1)
        from_risk     == IF first # <<>> /\ Get(first[1], "timeline", "") = "immediate"
                         THEN <<Get(first[1], "mitigation", "")>> ELSE <<>>
        budget        == state.budget_recommendation
        ai_recs       == Get(budget, "ai_recommendations", EmptyDict)
        adjustments   == Get(ai_recs, "adjustments", <<>>)
        from_budget   == Take(adjustments, 1)
    IN  IF ~IsDict(ai_assessment) THEN Exc("AttributeError")
        ELSE IF first # <<>> /\ ~IsDict(first[1]) THEN Exc("AttributeError")
        ELSE Ok(Take(from_savings \o from_risk \o from_budget, 5))

Status(health_score) ==
    IF RGe(health_score, R(75)) THEN "Excellent"
    ELSE IF RGe(health_score, R(60)) THEN "Good"
    ELSE IF RGe(health_score, R(40)) THEN "Fair"
    ELSE "Needs Attention"

_create_executive_summary(state) ==
    LET metrics == Get(state.financial_analysis, "metrics", EmptyDict)
        insights == Get(state.financial_analysis, "insights", EmptyDict)
        alerts  == Get(state.monitoring_alerts, "alerts", <<>>)
        health_score == _calculate_health_score(state)
        priority_actions == _get_priority_actions(state)
    IN  IF IsExc(priority_actions) THEN priority_actions
        ELSE [ overall_status   |-> Status(health_score),
               health_score     |-> health_score,
               key_metrics      |-> [ monthly_income   |-> Get(metrics, "total_income", 0),
                                      monthly_expenses |-> Get(metrics, "total_expenses", 0),
                                      savings_rate     |-> Get(metrics, "savings_rate", R(0)),
                                      net_cash_flow    |-> Get(metrics, "net_cash_flow", 0) ],
               top_insights     |-> Take(Get(insights, "key_findings", <<>>), 3),
               priority_actions |-> priority_actions.value,
               critical_alerts  |-> Take(SelectSeq(alerts,
                                        LAMBDA a : Get(a, "severity", "") \in {"urgent", "warning"}), 3),
               savings_target   |-> Get(state.budget_recommendation, "target_savings", R(0)),
               risk_level       |-> Get(Get(state.risk_assessment, "ai_assessment", EmptyDict),
                                        "overall_risk_level", "Unknown") ]

\* an entry of errors: f"{label} error: {str(e)}"
ErrorEntry(label, e) == <<label, "error", e>>

_compiler_node(state) ==
    LET st == [state EXCEPT !.current_agent = "Report Compiler"]
        executive_summary == _create_executive_summary(st)
        report ==
            [ user_id            |-> st.user_id,
              financial_overview |-> [ analysis     |-> st.financial_analysis,
                                       health_score |-> _calculate_health_score(st) ],
              budget_plan        |-> st.budget_recommendation,
              risk_profile       |-> st.risk_assessment,
              savings_plan       |-> st.savings_strategy,
              alerts             |-> st.monitoring_alerts,
              executive_summary  |-> executive_summary,
              errors             |-> st.errors ]
    IN  IF IsExc(executive_summary)
        THEN [st EXCEPT !.errors = @ \o <<ErrorEntry("Compiler", executive_summary.exc)>>,
                        !.comprehensive_report = [error |-> executive_summary.exc]]
        ELSE [st EXCEPT !.comprehensive_report = report]

\* the five agent nodes of the workflow, in the order of its edges, with the
\* label each node wrapper puts in its error entry and the agent's name
Nodes == <<"analyst", "optimizer", "risk_assessor", "savings_coach", "monitor">>

NodeLabel ==
    [ analyst |-> "Analyst", optimizer |-> "Optimizer", risk_assessor |-> "Risk Assessor",
      savings_coach |-> "Savings Coach", monitor |-> "Monitor" ]

AgentName ==
    [ analyst |-> "Financial Analyst", optimizer |-> "Budget Optimizer",
      risk_assessor |-> "Risk Assessor", savings_coach |-> "Savings Coach",
      monitor |-> "Transaction Monitor" ]

\* _analyst_node .. _monitor_node: run the agent on the state, catch what it raises
AgentNode(node, state, result) ==
    IF result.exc = "none" THEN result.state
    ELSE [result.state EXCEPT !.errors = @ \o <<ErrorEntry(NodeLabel[node], result.exc)>>]

\* what the compiled StateGraph does with the dict a node returns: every key
\* replaces its channel, except errors, declared Annotated[List[str], operator.add],
\* whose returned value is added to the channel's current value
ChannelUpdate(channels, returned) ==
    [returned EXCEPT !.errors = channels.errors \o returned.errors]

\* a loop that swallows the exception without recording it
FallbackIteration_swallow(node, state, result) == result.state

\* one iteration of the loop of _fallback_execution
FallbackIteration(node, state, result) ==
    IF result.exc = "none" THEN result.state
    ELSE [result.state EXCEPT !.errors = @ \o <<ErrorEntry(AgentName[node], result.exc)>>]

\* a workflow whose risk_assessor edge skips the savings coach
workflow_edges_skip ==
    [ analyst |-> "optimizer", optimizer |-> "risk_assessor", risk_assessor |-> "monitor",
      savings_coach |-> "monitor", monitor |-> "compiler", compiler |-> "END" ]

\* the edges of _build_langgraph_workflow
workflow_edges ==
    [ analyst |-> "optimizer", optimizer |-> "risk_assessor", risk_assessor |-> "savings_coach",
      savings_coach |-> "monitor", monitor |-> "compiler", compiler |-> "END" ]

\* the order of _fallback_execution: the agents list, then the compiler
fallback_order == Nodes \o <<"compiler", "END">>

NextNode(langgraph, node) ==
    IF langgraph THEN workflow_edges[node]
    ELSE fallback_order[Index(fallback_order, node) + 1]

(* ------------------------------ inputs --------------------------------- *)
Txn(type, amount, category, date) ==
    [type |-> type, amount |-> amount, category |-> category, date |-> date]

\* schemas/transaction.py: type is credit or debit, amount is any non-zero number
TxnPool ==
    { Txn("credit", 30, "salary", 1),
      Txn("credit", 15, "freelance", 2),
      Txn("credit", 5, "freelance", 2),
      Txn("credit", -5, "salary", 1),
      Txn("debit", -4, "food_groceries", 1),
      Txn("debit", 40, "food_groceries", 1),
      Txn("debit", -4, "entertainment", 2) }

SeqsUpTo(S, m) == UNION {[1..k -> S] : k \in 0..m}

TxnInputs == SeqsUpTo(TxnPool, MaxTxns)

PrefsInputs ==
    { EmptyDict,
      [target_savings_rate |-> Rat(2, 10), risk_tolerance |-> "low"],
      [target_savings_rate |-> Rat(5, 10), risk_tolerance |-> "high"] }

Uniform == [i \in 1..8 |-> Rat(1, 8)]
\* a policy that puts everything on entertainment and miscellaneous
Lopsided == [i \in 1..8 |-> IF i \in {5, 8} THEN Rat(1, 2) ELSE R(0)]

PipelinePolicies == {Uniform, Lopsided}

None == [none |-> TRUE]

(* ------------------------- the analysis request ------------------------ *)
VARIABLES
    use_langgraph,  \* FinSageOrchestrator.use_langgraph
    state,          \* the AgentState of the request in progress
    pc,             \* "idle", the node about to run, "END", or "done"
    executed,       \* the nodes run so far for this request, in order
    raised,         \* the nodes that caught an exception
    report,         \* what analyze() returned
    call,           \* a direct call of one component: its name and arguments
    ret,            \* and what it returned
    last,           \* the last agent invocation: the state it was handed, what the
                    \* services gave it, the state it left and what it raised
    services,       \* what the text service and the policy give to every request
    requests        \* the analyze() calls in progress on the shared orchestrator

vars == <<use_langgraph, state, pc, executed, raised, report, call, ret,
          last, services, requests>>

Init ==
    /\ use_langgraph \in BOOLEAN
    /\ state = None
    /\ pc = "idle"
    /\ executed = <<>>
    /\ raised = {}
    /\ report = None
    /\ call = None
    /\ ret = None
    /\ last = None
    /\ services = None
    /\ requests = None

\* analyze(): build the initial state and enter the workflow
Analyze ==
    /\ pc = "idle"
    /\ call = None
    /\ \E transactions \in TxnInputs, user_preferences \in PrefsInputs :
          state' = initial_state("user", transactions, user_preferences)
    /\ pc' = "analyst"
    /\ UNCHANGED <<use_langgraph, executed, raised, report, call, ret, last, services, requests>>

\* a pipeline that records an error entry whenever the text service gave nothing
RunAgent_surfacing(node, result, given) ==
    /\ last' = [ node |-> node, given |-> given, before |-> state,
                 left |-> result.state, exc |-> result.exc ]
    /\ state' = LET after == IF use_langgraph
                             THEN ChannelUpdate(state, AgentNode(node, state, result))
                             ELSE FallbackIteration(node, state, result)
                IN  IF given.llm = "none"
                    THEN [after EXCEPT !.errors = @ \o <<ErrorEntry(AgentName[node], "LLMError")>>]
                    ELSE after
    /\ raised' = IF result.exc = "none" THEN raised ELSE raised \cup {node}
    /\ executed' = Append(executed, node)
    /\ pc' = NextNode(use_langgraph, node)
    /\ UNCHANGED <<use_langgraph, report, call, ret, services, requests>>

\* one agent node: the node wrapper of the workflow, or one iteration of the
\* fallback loop, around the agent's process()
RunAgent(node, result, given) ==
    /\ last' = [ node |-> node, given |-> given, before |-> state,
                 left |-> result.state, exc |-> result.exc ]
    /\ state' = IF use_langgraph
                THEN ChannelUpdate(state, AgentNode(node, state, result))
                ELSE FallbackIteration(node, state, result)
    /\ raised' = IF result.exc = "none" THEN raised ELSE raised \cup {node}
    /\ executed' = Append(executed, node)
    /\ pc' = NextNode(use_langgraph, node)
    /\ UNCHANGED <<use_langgraph, report, call, ret, services, requests>>

\* what the external services give one agent invocation
Given(llm, rl_available, policy_probs, rounding) ==
    [ llm |-> llm, rl_available |-> rl_available, policy_probs |-> policy_probs,
      rounding |-> rounding ]

\* the thresholds of _detect_anomalies are computed only when there are at
\* least 5 outflows; without them nothing is rounded
ThresholdRoundings(transactions) ==
    IF Len(SelectSeq(transactions, LAMBDA t : t.type = "debit")) < 5 THEN {None} ELSE Rounding

Entered(node) == [state EXCEPT !.current_agent = AgentName[node]]

AnalystStep ==
    /\ pc = "analyst"
    /\ \E llm \in LLM : RunAgent("analyst", AnalystProcess(Entered("analyst"), llm),
                                  Given(llm, FALSE, None, None))

OptimizerStep ==
    /\ pc = "optimizer"
    /\ \E llm \in LLM, rl_available \in BOOLEAN, policy_probs \in PipelinePolicies :
          RunAgent("optimizer",
                   OptimizerProcess(Entered("optimizer"), rl_available, policy_probs, llm),
                   Given(llm, rl_available, policy_probs, None))

RiskStep ==
    /\ pc = "risk_assessor"
    /\ \E llm \in RiskLLM : RunAgent("risk_assessor", RiskProcess(Entered("risk_assessor"), llm),
                                      Given(llm, FALSE, None, None))

CoachStep ==
    /\ pc = "savings_coach"
    /\ \E llm \in LLM : RunAgent("savings_coach", CoachProcess(Entered("savings_coach"), llm),
                                  Given(llm, FALSE, None, None))

MonitorStep ==
    /\ pc = "monitor"
    /\ \E llm \in LLM, rounding \in ThresholdRoundings(state.transactions) :
          RunAgent("monitor", MonitorProcess(Entered("monitor"), llm, rounding),
                   Given(llm, FALSE, None, rounding))

CompilerStep ==
    /\ pc = "compiler"
    /\ state' = IF use_langgraph
                THEN ChannelUpdate(state, _compiler_node(state))
                ELSE _compiler_node(state)
    /\ raised' = IF "error" \in DOMAIN _compiler_node(state).comprehensive_report
                 THEN raised \cup {"compiler"} ELSE raised
    /\ executed' = Append(executed, "compiler")
    /\ pc' = NextNode(use_langgraph, "compiler")
    /\ UNCHANGED <<use_langgraph, report, call, ret, last, services, requests>>

\* analyze() returns final_state.get("comprehensive_report", {})
Return ==
    /\ pc = "END"
    /\ report' = state.comprehensive_report
    /\ pc' = "done"
    /\ UNCHANGED <<use_langgraph, state, executed, raised, call, ret, last, services, requests>>

Next ==
    \/ Analyze
    \/ AnalystStep
    \/ OptimizerStep
    \/ RiskStep
    \/ CoachStep
    \/ MonitorStep
    \/ CompilerStep
    \/ Return

Spec == Init /\ [][Next]_vars

(* -------------------- the budget allocator, called alone --------------- *)
RECURSIVE Compositions(_, _)
Compositions(len, total) ==
    IF len = 0 THEN (IF total = 0 THEN {<<>>} ELSE {})
    ELSE UNION {{<<h>> \o t : t \in Compositions(len - 1, total - h)} : h \in 0..total}

\* what the softmax of policy_net can give, on a grid
PolicyOutputs ==
    {[i \in 1..Len(DEFAULT_CATEGORIES) |-> Rat(v[i], PolicyGrid)] :
        v \in Compositions(Len(DEFAULT_CATEGORIES), PolicyGrid)}

TotalBudgets == {R(0), R(24), Rat(7, 2)}
RiskTolerances == {"low", "medium", "high"}

Idle ==
    /\ use_langgraph = FALSE
    /\ state = None
    /\ pc = "idle"
    /\ executed = <<>>
    /\ raised = {}
    /\ report = None
    /\ last = None
    /\ services = None
    /\ requests = None

InitAllocator ==
    /\ Idle
    /\ call \in
          {[fn |-> "recommend_budget", policy_probs |-> p, total_budget |-> b, risk_tolerance |-> r] :
              p \in PolicyOutputs, b \in TotalBudgets, r \in RiskTolerances}
          \cup {[fn |-> "_rule_based_allocation", total_budget |-> b] : b \in TotalBudgets}
          \cup {[fn |-> "_adjust_for_risk", probs |-> p, risk_tolerance |-> r] :
                    p \in PolicyOutputs, r \in RiskTolerances}
          \cup {[fn |-> "_enforce_essential_minimums", probs |-> _adjust_for_risk(p, r)] :
                    p \in PolicyOutputs, r \in RiskTolerances}
    /\ ret = None

RecommendBudget ==
    /\ call.fn = "recommend_budget"
    /\ ret = None
    /\ ret' = recommend_budget(call.policy_probs, call.total_budget, call.risk_tolerance)
    /\ UNCHANGED <<use_langgraph, state, pc, executed, raised, report, call,
                   last, services, requests>>

RuleBasedAllocation ==
    /\ call.fn = "_rule_based_allocation"
    /\ ret = None
    /\ ret' = _rule_based_allocation(call.total_budget)
    /\ UNCHANGED <<use_langgraph, state, pc, executed, raised, report, call,
                   last, services, requests>>

AdjustForRisk ==
    /\ call.fn = "_adjust_for_risk"
    /\ ret = None
    /\ ret' = _adjust_for_risk(call.probs, call.risk_tolerance)
    /\ UNCHANGED <<use_langgraph, state, pc, executed, raised, report, call,
                   last, services, requests>>

\* _enforce_essential_minimums, one essential category at a time: `i` is the
\* essential about to be looked at, `before` the proportions the last
\* iteration started from and `cap` whether the 50% cap decided a reduction
EnforceIteration ==
    /\ call.fn = "_enforce_essential_minimums"
    /\ LET adjusted == IF ret = None THEN call.probs ELSE ret.adjusted
           i        == IF ret = None THEN 1 ELSE ret.i
           idx      == Index(DEFAULT_CATEGORIES, essentials[i])
           min_pct  == essential_min[essentials[i]]
       IN  /\ i <= Len(essentials)
           /\ ret' = [ adjusted |-> EnforceOne(adjusted, i),
                       i        |-> i + 1,
                       before   |-> adjusted,
                       cap      |-> /\ RLt(adjusted[idx], min_pct)
                                    /\ DonorCapBinds([adjusted EXCEPT ![idx] = min_pct],
                                                      RSub(min_pct, adjusted[idx]), 1) ]
    /\ UNCHANGED <<use_langgraph, state, pc, executed, raised, report, call,
                   last, services, requests>>

NextAllocator ==
    \/ RecommendBudget
    \/ RuleBasedAllocation
    \/ AdjustForRisk
    \/ EnforceIteration

SpecAllocator == InitAllocator /\ [][NextAllocator]_vars

(* ------------------ the transaction monitor, called alone -------------- *)
RECURSIVE Repeat(_, _)
Repeat(x, k) == IF k = 0 THEN <<>> ELSE <<x>> \o Repeat(x, k - 1)

BaseDebit == Txn("debit", -1, "food_groceries", 1)

MonitorPool ==
    { Txn("debit", 40, "food_groceries", 1),
      Txn("debit", 60, "transportation", 3),
      Txn("debit", -9, "entertainment", 2),
      Txn("debit", -7, "healthcare", 2) }

\* longest list handed to _check_duplicates alone
MaxDupTxns == 3

\* transactions with a time of day and amounts with three decimals
Stamped(type, amount, thousandths, category, date, time) ==
    [ type |-> type, amount |-> amount, thousandths |-> thousandths,
      category |-> category, date |-> date, time |-> time ]

DuplicatePool ==
    { Stamped("debit", 10, 1, "food_groceries", 1, 9),
      Stamped("debit", 10, 4, "food_groceries", 1, 17),
      Stamped("debit", 10, 6, "food_groceries", 1, 9),
      Stamped("debit", 10, 1, "food_groceries", 2, 9),
      Stamped("debit", 10, 1, "entertainment", 1, 9),
      Stamped("credit", 10, 1, "food_groceries", 1, 12),
      Stamped("credit", 500, 0, "salary", 1, 8) }

DuplicateTxnInputs == SeqsUpTo(DuplicatePool, MaxDupTxns)

\* an optional income, a run of equal small debits, and a few other debits
MonitorTxnInputs ==
    {head \o Repeat(BaseDebit, k) \o tail :
        head \in {<<>>, <<Txn("credit", 100, "salary", 1)>>},
        k \in 0..MaxRepeat,
        tail \in SeqsUpTo(MonitorPool, 2)}

\* the state the monitor is handed when analyze() runs the first four agents
\* offline (no JSON from the text service) on the fallback path
RECURSIVE BeforeMonitor(_, _, _, _)
BeforeMonitor(st, i, rl_available, policy_probs) ==
    IF i > 4 THEN st
    ELSE LET node    == fallback_order[i]
             entered == [st EXCEPT !.current_agent = AgentName[node]]
             result  == IF node = "analyst" THEN AnalystProcess(entered, "none")
                        ELSE IF node = "optimizer"
                        THEN OptimizerProcess(entered, rl_available, policy_probs, "none")
                        ELSE IF node = "risk_assessor" THEN RiskProcess(entered, "none")
                        ELSE CoachProcess(entered, "none")
         IN  BeforeMonitor(FallbackIteration(node, entered, result), i + 1, rl_available, policy_probs)

InitMonitor ==
    /\ Idle
    /\ \/ \E transactions \in MonitorTxnInputs, user_preferences \in PrefsInputs,
             rl_available \in BOOLEAN, policy_probs \in PipelinePolicies :
             call = [fn |-> "TransactionMonitorAgent.process",
                     state |-> BeforeMonitor(initial_state("user", transactions, user_preferences),
                                             1, rl_available, policy_probs)]
       \/ \E transactions \in DuplicateTxnInputs :
             call = [fn |-> "_check_duplicates", transactions |-> transactions]
    /\ ret = None

MonitorCall ==
    /\ call.fn = "TransactionMonitorAgent.process"
    /\ ret = None
    /\ \E llm \in LLM, rounding \in ThresholdRoundings(call.state.transactions) :
          /\ ret' = MonitorProcess(call.state, llm, rounding)
          /\ last' = [given |-> Given(llm, FALSE, None, rounding)]
    /\ UNCHANGED <<use_langgraph, state, pc, executed, raised, report, call,
                   services, requests>>

CheckDuplicates ==
    /\ call.fn = "_check_duplicates"
    /\ ret = None
    /\ ret' = [alerts |-> _check_duplicates(call.transactions)]
    /\ UNCHANGED <<use_langgraph, state, pc, executed, raised, report, call,
                   last, services, requests>>

NextMonitor ==
    \/ MonitorCall
    \/ CheckDuplicates

SpecMonitor == InitMonitor /\ [][NextMonitor]_vars

(* --------------- requests sharing the orchestrator singleton ----------- *)
\* the number of analyze() calls made on the orchestrator
MaxRequests == 2

RequestIds == 1..MaxRequests

RequestTxns ==
    { <<Txn("credit", 30, "salary", 1), Txn("debit", 40, "food_groceries", 1)>>,
      <<Txn("credit", 5, "freelance", 2), Txn("credit", -5, "salary", 1)>> }

\* the arguments of analyze(): transactions and user_preferences
RequestArgs ==
    {[transactions |-> t, user_preferences |-> EmptyDict] : t \in RequestTxns}
    \cup {[ transactions |-> <<Txn("credit", 30, "salary", 1), Txn("debit", 40, "food_groceries", 1)>>,
            user_preferences |-> [target_savings_rate |-> Rat(5, 10), risk_tolerance |-> "high"] ]}

\* services that answer every call the same way: offline (no provider, no
\* policy), a provider that returns JSON with the policy available, and a
\* provider whose content is not a string; the side on which the anomaly
\* thresholds are rounded is fixed with them
ServicesInputs ==
    { Given("none", FALSE, None, "above"), Given("json", TRUE, Uniform, "below"),
      Given("non_text", TRUE, Lopsided, "above") }

\* agent.process(state) of the agent behind a node
StageResult(node, st, given) ==
    IF node = "analyst" THEN AnalystProcess(st, given.llm)
    ELSE IF node = "optimizer"
    THEN OptimizerProcess(st, given.rl_available, given.policy_probs, given.llm)
    ELSE IF node = "risk_assessor" THEN RiskProcess(st, given.llm)
    ELSE IF node = "savings_coach" THEN CoachProcess(st, given.llm)
    ELSE MonitorProcess(st, given.llm, given.rounding)

\* what the caller of process() does with its result: the node wrapper and
\* the channel update of the workflow, or the try/except of the fallback loop
AfterStage(langgraph, node, st, result) ==
    IF langgraph THEN ChannelUpdate(st, AgentNode(node, st, result))
    ELSE FallbackIteration(node, st, result)

\* the state of a request after `node` has run on st: a node of the workflow,
\* or an iteration of the fallback loop (the compiler after the loop)
AfterNode(langgraph, node, st, given) ==
    IF node = "compiler"
    THEN IF langgraph THEN ChannelUpdate(st, _compiler_node(st)) ELSE _compiler_node(st)
    ELSE AfterStage(langgraph, node, st,
                    StageResult(node, [st EXCEPT !.current_agent = AgentName[node]], given))

\* an analyze() that starts from what an earlier request left in errors
FreshState_reused(r, args) ==
    LET fresh == initial_state("user", args.transactions, args.user_preferences)
    IN  IF \E q \in RequestIds : requests[q].pc = "done"
        THEN [fresh EXCEPT !.errors =
                 requests[CHOOSE q \in RequestIds : requests[q].pc = "done"].state.errors]
        ELSE fresh

\* the AgentState analyze() builds for request r: a new dict per call
FreshState(r, args) == initial_state("user", args.transactions, args.user_preferences)

\* stages that all work on the state of the first request
StateOf_shared(r) ==
    IF requests[1].pc # "idle" THEN requests[1].state ELSE requests[r].state

\* the state the stages of request r work on: the local of its own analyze()
StateOf(r) == requests[r].state

InitRequests ==
    /\ use_langgraph \in BOOLEAN
    /\ services \in ServicesInputs
    /\ requests = [r \in RequestIds |->
                     [pc |-> "idle", args |-> None, state |-> None, solo |-> None, twin |-> None,
                      report |-> None, after |-> {}]]
    /\ state = None
    /\ pc = "idle"
    /\ executed = <<>>
    /\ raised = {}
    /\ report = None
    /\ call = None
    /\ ret = None
    /\ last = None

\* get_orchestrator().analyze(...): request r enters the pipeline; `after`
\* records the requests that had already returned.  `solo` is the state of
\* the same call on an orchestrator that serves no other request, and `twin`
\* its state on one that takes the other path (the workflow where this one
\* runs the fallback loop, and the reverse), both advanced node for node.
Submit(r) ==
    /\ requests[r].pc = "idle"
    /\ \E args \in RequestArgs :
          requests' = [requests EXCEPT ![r] =
              [ pc |-> "analyst", args |-> args, state |-> FreshState(r, args),
                solo |-> initial_state("user", args.transactions, args.user_preferences),
                twin |-> initial_state("user", args.transactions, args.user_preferences),
                report |-> None,
                after |-> {q \in RequestIds : requests[q].pc = "done"} ]]
    /\ UNCHANGED <<use_langgraph, state, pc, executed, raised, report, call, ret, last, services>>

\* the request record once its node has run: `after` holds the state the node
\* left, and the states it left on the request's solo and twin runs
Stepped(request, after, next) ==
    [request EXCEPT !.state = after.state, !.solo = after.solo, !.twin = after.twin,
                    !.pc = next]

\* request r runs its next node
RequestStep(r) ==
    /\ requests[r].pc \notin {"idle", "END", "done"}
    /\ requests' = [requests EXCEPT ![r] =
          Stepped(requests[r],
                  [run \in {"state", "solo", "twin"} |->
                      AfterNode(IF run = "twin" THEN ~use_langgraph ELSE use_langgraph,
                                requests[r].pc,
                                IF run = "state" THEN StateOf(r) ELSE requests[r][run],
                                services)],
                  NextNode(use_langgraph, requests[r].pc))]
    /\ UNCHANGED <<use_langgraph, state, pc, executed, raised, report, call, ret, last, services>>

\* analyze() of request r returns its report
RequestReturn(r) ==
    /\ requests[r].pc = "END"
    /\ requests' = [requests EXCEPT ![r].report = StateOf(r).comprehensive_report,
                                    ![r].pc = "done"]
    /\ UNCHANGED <<use_langgraph, state, pc, executed, raised, report, call, ret, last, services>>

NextRequests ==
    \/ \E r \in RequestIds : Submit(r)
    \/ \E r \in RequestIds : RequestStep(r)
    \/ \E r \in RequestIds : RequestReturn(r)

SpecRequests == InitRequests /\ [][NextRequests]_vars

(* ------------- the metrics and the risk sub-scores, called alone ------- *)
\* longest lists of inflows and of outflows handed to _calculate_metrics
MaxCredits == 2
MaxDebits == 3

CreditPool == {2, 3, 5, 7, 8, -5}
DebitPool == {5, 8, 9, 11, -4}

\* one credit of 30000 and debits of 5000, 8000 and 3000
ScenarioTxns ==
    << Txn("credit", 30000, "salary", 1), Txn("debit", 5000, "food_groceries", 1),
       Txn("debit", 8000, "rent_utilities", 1), Txn("debit", 3000, "entertainment", 2) >>

\* a month of tracked transactions: one salary and 29 small outflows
TrackedTxns ==
    <<Txn("credit", 30000, "salary", 1)>> \o Repeat(Txn("debit", 100, "food_groceries", 2), 29)

MetricsTxnInputs ==
    { Map(LAMBDA a : Txn("credit", a, "freelance", 1), credits)
        \o Map(LAMBDA a : Txn("debit", a, "food_groceries", 2), debits) :
        credits \in SeqsUpTo(CreditPool, MaxCredits), debits \in SeqsUpTo(DebitPool, MaxDebits) }
    \ {<<>>}

InitMetrics ==
    /\ Idle
    /\ call \in {[fn |-> "_calculate_metrics", transactions |-> t] :
                    t \in MetricsTxnInputs \cup {ScenarioTxns, TrackedTxns}}
    /\ ret = None

\* FinancialAnalystAgent.process computes the metrics of a non-empty list
CalculateMetrics ==
    /\ call.fn = "_calculate_metrics"
    /\ ret = None
    /\ ret' = [metrics |-> _calculate_metrics(call.transactions)]
    /\ UNCHANGED <<use_langgraph, state, pc, executed, raised, report, call,
                   last, services, requests>>

\* RiskAssessorAgent.process scores the metrics the Analyst wrote
CalculateRiskScores ==
    /\ call.fn = "_calculate_metrics"
    /\ ret # None
    /\ DOMAIN ret = {"metrics"}
    /\ ret' = [metrics |-> ret.metrics, risks |-> _calculate_risk_scores(ret.metrics)]
    /\ UNCHANGED <<use_langgraph, state, pc, executed, raised, report, call,
                   last, services, requests>>

\* RiskAssessorAgent.process weighs the sub-scores
CalculateOverallRisk ==
    /\ call.fn = "_calculate_metrics"
    /\ ret # None
    /\ DOMAIN ret = {"metrics", "risks"}
    /\ ret' = [metrics |-> ret.metrics, risks |-> ret.risks,
               overall_risk_score |-> _calculate_overall_risk(ret.risks)]
    /\ UNCHANGED <<use_langgraph, state, pc, executed, raised, report, call,
                   last, services, requests>>

\* the compiler scores the state the Analyst and the Risk Assessor left; a
\* Risk Assessor that raised before its assignment left risk_assessment empty
CalculateHealthScore ==
    /\ call.fn = "_calculate_metrics"
    /\ ret # None
    /\ DOMAIN ret = {"metrics", "risks", "overall_risk_score"}
    /\ \E risk_raised \in BOOLEAN :
          LET risk_assessment ==
                  IF risk_raised THEN EmptyDict
                  ELSE [risk_scores |-> ret.risks, overall_risk_score |-> ret.overall_risk_score]
              st == [initial_state("user", call.transactions, EmptyDict) EXCEPT
                        !.financial_analysis = [metrics |-> ret.metrics],
                        !.risk_assessment = risk_assessment]
          IN  ret' = [metrics |-> ret.metrics, risks |-> ret.risks,
                      overall_risk_score |-> ret.overall_risk_score,
                      risk_assessment |-> risk_assessment,
                      health_score |-> _calculate_health_score(st)]
    /\ UNCHANGED <<use_langgraph, state, pc, executed, raised, report, call,
                   last, services, requests>>

\* RiskAssessorAgent.process without JSON from the text service
FallbackAssessment ==
    /\ call.fn = "_calculate_metrics"
    /\ ret # None
    /\ DOMAIN ret = {"metrics", "risks", "overall_risk_score"}
    /\ ret' = [metrics |-> ret.metrics, risks |-> ret.risks,
               overall_risk_score |-> ret.overall_risk_score,
               ai_assessment |-> _fallback_assessment(ret.risks)]
    /\ UNCHANGED <<use_langgraph, state, pc, executed, raised, report, call,
                   last, services, requests>>

\* the state the Risk Assessor leaves when it writes its fallback assessment
Assessed(budgeted, scored) ==
    [budgeted EXCEPT !.risk_assessment =
        [ risk_scores        |-> scored.risks,
          ai_assessment      |-> scored.ai_assessment,
          overall_risk_score |-> scored.overall_risk_score ]]

\* what _get_priority_actions picks from the state the Savings Coach left
PickedFrom(scored, coached) ==
    [ metrics               |-> scored.metrics,
      risks                 |-> scored.risks,
      overall_risk_score    |-> scored.overall_risk_score,
      ai_assessment         |-> scored.ai_assessment,
      savings_strategy      |-> coached.savings_strategy,
      budget_recommendation |-> coached.budget_recommendation,
      priority_actions      |-> _get_priority_actions(coached) ]

\* the compiler picks the priority actions from the state the Budget
\* Optimizer, the Risk Assessor (on its fallback assessment) and the Savings
\* Coach left; the policy is not available
GetPriorityActions ==
    /\ call.fn = "_calculate_metrics"
    /\ ret # None
    /\ DOMAIN ret = {"metrics", "risks", "overall_risk_score", "ai_assessment"}
    /\ \E optimizer_llm \in {"none", "json"}, coach_llm \in {"none", "json"} :
          ret' = PickedFrom(ret,
                    CoachProcess(
                        Assessed(OptimizerProcess(
                                     [initial_state("user", call.transactions, EmptyDict) EXCEPT
                                         !.financial_analysis = [metrics |-> ret.metrics]],
                                     FALSE, None, optimizer_llm).state,
                                 ret),
                        coach_llm).state)
    /\ UNCHANGED <<use_langgraph, state, pc, executed, raised, report, call,
                   last, services, requests>>

NextMetrics ==
    \/ CalculateMetrics
    \/ CalculateRiskScores
    \/ CalculateOverallRisk
    \/ CalculateHealthScore
    \/ FallbackAssessment
    \/ GetPriorityActions

SpecMetrics == InitMetrics /\ [][NextMetrics]_vars

(* ======================= properties of the pipeline ==================== *)
StageOrder == <<"analyst", "optimizer", "risk_assessor", "savings_coach", "monitor", "compiler">>

\* C1: on both paths the nodes run in the order analyst, optimizer,
\* risk_assessor, savings_coach, monitor, compiler, each once, whichever of
\* them raise; the node about to run is always the next of that order, and the
\* request has returned only after all six have run.
C1_StageOrder ==
    /\ Len(executed) <= Len(StageOrder)
    /\ executed = SubSeq(StageOrder, 1, Len(executed))
    /\ pc \in {"END", "done"} => executed = StageOrder
    /\ pc \notin {"idle", "END", "done"} =>
          /\ Len(executed) < Len(StageOrder)
          /\ pc = StageOrder[Len(executed) + 1]

C1_Witness ==
    /\ pc = "done"
    /\ use_langgraph
    /\ raised = {"optimizer", "risk_assessor", "savings_coach", "monitor"}
    /\ executed = StageOrder

HasHealthAndSummary(rep) ==
    /\ "financial_overview" \in DOMAIN rep
    /\ "health_score" \in DOMAIN rep.financial_overview
    /\ "executive_summary" \in DOMAIN rep
    /\ "health_score" \in DOMAIN rep.executive_summary

\* C2 (as claimed): when only the Savings Coach raises, the report's errors
\* hold exactly one entry, the coach's, and the health score is the one
\* computed from the blocks of the final state.
C2_CoachOnlyOneError ==
    (pc = "done" /\ raised = {"savings_coach"}) =>
        /\ "errors" \in DOMAIN report
        /\ Len(report.errors) = 1
        /\ report.errors[1][1] = "Savings Coach"
        /\ report.financial_overview.health_score = _calculate_health_score(state)

C4_HealthScoreInRange ==
    (pc = "done" /\ "financial_overview" \in DOMAIN report) =>
        /\ RGe(report.financial_overview.health_score, R(0))
        /\ RLe(report.financial_overview.health_score, R(100))

\* C5: the overall risk score the Risk Assessor writes is
\* 0.3*income_stability + 0.3*cash_flow + 0.2*savings + 0.2*emergency_fund
\* of the sub-scores it writes, and lies in [0, 1].
C5_OverallRiskWeighted ==
    (pc # "idle" /\ "overall_risk_score" \in DOMAIN state.risk_assessment) =>
        LET rs == state.risk_assessment.risk_scores
            overall == state.risk_assessment.overall_risk_score
            Hundredths(q) == (100 * q.n) \div q.d
        IN  /\ DOMAIN rs = {"income_stability_risk", "cash_flow_risk", "savings_risk",
                            "emergency_fund_risk"}
            /\ 10 * Hundredths(overall) =
                   3 * Hundredths(rs.income_stability_risk.score)
                 + 3 * Hundredths(rs.cash_flow_risk.score)
                 + 2 * Hundredths(rs.savings_risk.score)
                 + 2 * Hundredths(rs.emergency_fund_risk.score)
            /\ (100 * overall.n) % overall.d = 0
            /\ 0 <= overall.n /\ overall.n <= overall.d

C5_Witness ==
    /\ pc # "idle"
    /\ "overall_risk_score" \in DOMAIN state.risk_assessment
    /\ state.risk_assessment.risk_scores.income_stability_risk.level = "High"
    /\ state.risk_assessment.risk_scores.cash_flow_risk.level = "Low"
    /\ state.risk_assessment.overall_risk_score = Rat(41, 100)

HasMetrics ==
    /\ pc # "idle"
    /\ Truthy(Get(state.financial_analysis, "metrics", EmptyDict))

\* C6 (as claimed): the metrics of a non-empty transaction list have
\* total_income >= 0 and total_expenses >= 0.
C6_TotalsNonNegative ==
    HasMetrics =>
        /\ state.financial_analysis.metrics.total_income >= 0
        /\ state.financial_analysis.metrics.total_expenses >= 0

AnalystDone == pc \notin {"idle", "analyst"}

CreditAmounts == Amounts(SelectSeq(state.transactions, LAMBDA t : t.type = "credit"))

\* C7: once the Analyst has run on a non-empty list it has not raised a
\* ZeroDivisionError; when total_income is 0 the savings_rate is 0; when there
\* are fewer than 2 inflows, or their mean is 0, income_volatility is 0.
C7_ZeroIncomeGuarded ==
    (AnalystDone /\ state.transactions # <<>>) =>
        /\ \A i \in 1..Len(state.errors) : state.errors[i][3] # "ZeroDivisionError"
              \/ state.errors[i][1] \notin {"Analyst", "Financial Analyst"}
        /\ HasMetrics =>
              LET m == state.financial_analysis.metrics
              IN  /\ m.total_income = 0 => m.savings_rate = R(0)
                  /\ (Len(CreditAmounts) < 2 \/ SumSeq(CreditAmounts) = 0)
                        => m.income_volatility = SqrtOf(R(0))

C7_Witness ==
    /\ HasMetrics
    /\ state.financial_analysis.metrics.total_income = 0
    /\ state.financial_analysis.metrics.income_count = 2
    /\ state.financial_analysis.metrics.savings_rate = R(0)

\* the block a stage writes when it has no data to work on
NoDataMarker(block) == DOMAIN block = {"error"}

\* C15: analyze() on an empty transaction list runs all six nodes, none
\* raises, errors stays empty, each agent writes a "no data" marker and no
\* results into its own block (the Analyst an error with empty metrics, the
\* Monitor an empty alert list with the summary "No transactions to monitor"),
\* and the report has a health score (12.5) and an executive summary.
C15_EmptyListNoData ==
    (pc = "done" /\ state.transactions = <<>>) =>
        /\ executed = StageOrder
        /\ raised = {}
        /\ state.errors = <<>> /\ report.errors = <<>>
        /\ state.financial_analysis =
              [error |-> "No transaction data available", metrics |-> EmptyDict]
        /\ NoDataMarker(state.budget_recommendation)
        /\ NoDataMarker(state.risk_assessment)
        /\ NoDataMarker(state.savings_strategy)
        /\ state.monitoring_alerts = [alerts |-> <<>>, summary |-> "No transactions to monitor"]
        /\ HasHealthAndSummary(report)
        /\ report.financial_overview.health_score = Rat(25, 2)

C15_Witness ==
    /\ pc = "done"
    /\ state.transactions = <<>>
    /\ use_langgraph
    /\ report.alerts.summary = "No transactions to monitor"
    /\ report.executive_summary.health_score = Rat(25, 2)

(* ---------------- properties of one agent invocation ------------------- *)
\* `last` describes the node that ran last
JustRan == last # None /\ executed # <<>> /\ executed[Len(executed)] = last.node

BlockOf ==
    [ analyst |-> "financial_analysis", optimizer |-> "budget_recommendation",
      risk_assessor |-> "risk_assessment", savings_coach |-> "savings_strategy",
      monitor |-> "monitoring_alerts" ]

Blocks == {BlockOf[n] : n \in DOMAIN BlockOf}

Entries(errors) == {errors[i] : i \in 1..Len(errors)}

\* what the agent of the last invocation does on the same state when the
\* services are as in `given`
LastWith(given) ==
    StageResult(last.node, [last.before EXCEPT !.current_agent = AgentName[last.node]], given)

\* the block the agent of the last invocation left
LastBlock == last.left[BlockOf[last.node]]

\* the block holds the agent's rule-based content
FallbackContent ==
    LET metrics == last.before.financial_analysis.metrics
    IN  IF last.node = "analyst"
        THEN LastBlock.insights = _fallback_analysis(LastBlock.metrics)
             /\ LastBlock.insights.source = "fallback"
        ELSE IF last.node = "optimizer"
        THEN LastBlock.ai_recommendations = _fallback_recommendations(metrics)
             /\ Len(LastBlock.ai_recommendations.adjustments) \in {2, 4}
        ELSE IF last.node = "risk_assessor"
        THEN LastBlock.ai_assessment = _fallback_assessment(LastBlock.risk_scores)
             /\ Len(LastBlock.ai_assessment.priority_risks) = 3
        ELSE IF last.node = "savings_coach"
        THEN Len(LastBlock.strategy.micro_actions) = 5
        ELSE LastBlock.ai_interpretation.summary
                \in {"Monitoring alerts detected", "All transactions normal"}

\* the block is a "no data" marker
NoDataBlock ==
    \/ "error" \in DOMAIN LastBlock
    \/ LastBlock = [alerts |-> <<>>, summary |-> "No transactions to monitor"]

C18_RaiseLeavesStateUnmodified ==
    (JustRan /\ last.exc # "none") =>
        /\ Len(state.errors) = Len(last.before.errors) + 1
        /\ SubSeq(state.errors, 1, Len(last.before.errors)) = last.before.errors
        /\ \A b \in Blocks : state[b] = last.before[b]

AllocatorReturned == call # None /\ ret # None /\ call.fn \in {"recommend_budget", "_rule_based_allocation"}

\* C8: for every total_budget >= 0 and every risk tolerance, the allocation of
\* recommend_budget and that of _rule_based_allocation have no negative amount
\* and their amounts sum to total_budget.
C8_AllocationSumsToBudget ==
    AllocatorReturned =>
        /\ \A c \in DOMAIN ret : ret[c].n >= 0
        /\ SumValues(ret) = call.total_budget

C8_Witness ==
    /\ AllocatorReturned
    /\ call.fn = "recommend_budget"
    /\ call.risk_tolerance = "low"
    /\ call.total_budget = R(24)
    /\ RSumSeq(_enforce_essential_minimums(_adjust_for_risk(call.policy_probs, "low"))) # R(1)

\* C9 (as claimed): the final allocation gives food_groceries at least 20% and
\* savings at least 10% of total_budget, on the policy path and on the
\* rule-based fallback.
C9_EssentialMinimums ==
    AllocatorReturned =>
        /\ RGe(Get(ret, "food_groceries", R(0)), RMul(Rat(20, 100), call.total_budget))
        /\ RGe(Get(ret, "savings", R(0)), RMul(Rat(10, 100), call.total_budget))

(* ======================== properties of the monitor ==================== *)
MonitorReturned ==
    /\ call # None /\ ret # None
    /\ call.fn = "TransactionMonitorAgent.process"
    /\ ret.exc = "none"

SeverityRank(a) == IF a.severity = "urgent" THEN 0 ELSE IF a.severity = "warning" THEN 1 ELSE 2
DetectorRank(a) == IF a.type = "anomaly" THEN 0 ELSE IF a.type = "budget_overrun" THEN 1 ELSE 2

\* C10: the alerts the Monitor writes are in ascending severity rank (urgent,
\* warning, info); alerts of one severity are in detection order: anomalies,
\* then budget overruns, then duplicates, each detector's alerts in the order
\* it found them.
C10_AlertsSortedStable ==
    MonitorReturned =>
        LET alerts   == ret.state.monitoring_alerts.alerts
            detected == DetectedAlerts(call.state, last.given.rounding)
            Of(sev)  == SelectSeq(detected, LAMBDA a : a.severity = sev)
        IN  /\ \A i, j \in 1..Len(alerts) : i < j =>
                  /\ SeverityRank(alerts[i]) <= SeverityRank(alerts[j])
                  /\ SeverityRank(alerts[i]) = SeverityRank(alerts[j])
                        => DetectorRank(alerts[i]) <= DetectorRank(alerts[j])
            /\ alerts = Of("urgent") \o Of("warning") \o Of("info")

C10_Witness ==
    /\ MonitorReturned
    /\ LET alerts == ret.state.monitoring_alerts.alerts
       IN  /\ alerts # DetectedAlerts(call.state, last.given.rounding)
           /\ \E i, j \in 1..Len(alerts) :
                 /\ i < j
                 /\ alerts[i].severity = "warning" /\ alerts[j].severity = "warning"
                 /\ alerts[i].type = "anomaly" /\ alerts[j].type = "budget_overrun"
           /\ \E i \in 1..Len(alerts) : alerts[i].severity = "info"

(* ================= properties of requests on one orchestrator ========== *)
\* the report of analyze() run alone, from a new orchestrator
SoloReport(r) == requests[r].solo.comprehensive_report

Offline == services.llm = "none" /\ ~services.rl_available

MonitorDebits == SelectSeq(call.state.transactions, LAMBDA t : t.type = "debit")

\* the i-th outflow is far larger than the others, which are all equal
LoneLargeOutflow(debits, i) ==
    /\ Len(debits) >= 5
    /\ \A j, k \in (1..Len(debits)) \ {i} : Abs(debits[j].amount) = Abs(debits[k].amount)
    /\ \A j \in (1..Len(debits)) \ {i} : Abs(debits[i].amount) >= 40 * Abs(debits[j].amount)

\* C12 (as claimed): when there are at least 5 outflows, all equal but one
\* that is far larger (five of 100 and one of 5000, here five of 1 and one of
\* 40), the alerts hold an urgent anomaly alert for the large transaction.
C12_LoneLargeOutflowUrgent ==
    MonitorReturned =>
        \A i \in 1..Len(MonitorDebits) :
            LoneLargeOutflow(MonitorDebits, i) =>
                \E a \in 1..Len(ret.state.monitoring_alerts.alerts) :
                    LET alert == ret.state.monitoring_alerts.alerts[a]
                    IN  /\ alert.type = "anomaly"
                        /\ alert.severity = "urgent"
                        /\ alert.transaction = MonitorDebits[i]

SpentOn(category) ==
    SumSeq(AbsAmounts(SelectSeq(MonitorDebits, LAMBDA t : t.category = category)))

Budgeted(category) ==
    Get(Get(call.state.budget_recommendation, "budget_allocation", EmptyDict), category, R(0))

OverspendPct(category) ==
    RMul(RDiv(RSub(R(SpentOn(category)), Budgeted(category)), Budgeted(category)), R(100))

OverrunAlerts(category) ==
    SelectSeq(ret.state.monitoring_alerts.alerts,
              LAMBDA a : a.type = "budget_overrun" /\ a.category = category)

\* C13: for each category with spending, the alerts hold no budget-overrun
\* alert when its budgeted amount is 0 (or there is no allocation); otherwise,
\* with overspend% = (spent - budgeted) / budgeted * 100, they hold exactly one
\* alert, urgent, when overspend% > 20, exactly one, warning, when
\* 10 < overspend% <= 20, and none when overspend% <= 10; the alert carries
\* spent, budgeted and overspend%.
C13_BudgetOverrunAlerts ==
    MonitorReturned =>
        \A i \in 1..Len(MonitorDebits) :
            LET category == MonitorDebits[i].category
                found    == OverrunAlerts(category)
            IN  IF Budgeted(category) = R(0) THEN found = <<>>
                ELSE IF RGt(OverspendPct(category), R(10))
                THEN /\ Len(found) = 1
                     /\ found[1].severity =
                           (IF RGt(OverspendPct(category), R(20)) THEN "urgent" ELSE "warning")
                     /\ found[1].overspend_pct = OverspendPct(category)
                     /\ found[1].spent = R(SpentOn(category))
                     /\ found[1].budgeted = Budgeted(category)
                ELSE found = <<>>

\* one run with an urgent overrun, a warning overrun and a category within budget
C13_Witness ==
    /\ MonitorReturned
    /\ \E c \in {"food_groceries", "entertainment", "healthcare"} :
          /\ Len(OverrunAlerts(c)) = 1 /\ OverrunAlerts(c)[1].severity = "urgent"
    /\ \E c \in {"food_groceries", "entertainment", "healthcare"} :
          /\ Len(OverrunAlerts(c)) = 1 /\ OverrunAlerts(c)[1].severity = "warning"
          /\ RLe(OverrunAlerts(c)[1].overspend_pct, R(20))
    /\ \E i \in 1..Len(MonitorDebits) :
          /\ Budgeted(MonitorDebits[i].category) # R(0)
          /\ OverrunAlerts(MonitorDebits[i].category) = <<>>

\* spending in a category whose budgeted amount is 0
ZeroBudgetReached ==
    /\ MonitorReturned
    /\ \E i \in 1..Len(MonitorDebits) :
          /\ "budget_allocation" \in DOMAIN call.state.budget_recommendation
          /\ Budgeted(MonitorDebits[i].category) = R(0)

(* ============ properties of the metrics and the risk sub-scores ======== *)
MetricsReturned == call # None /\ ret # None /\ call.fn = "_calculate_metrics"
RiskScoresReturned == MetricsReturned /\ "risks" \in DOMAIN ret

\* the sum of f over the transactions of one type
SumOfType(txns, type, f(_)) ==
    LET RECURSIVE Upto(_)
        Upto(i) == IF i = 0 THEN 0
                   ELSE Upto(i - 1) + (IF txns[i].type = type THEN f(txns[i].amount) ELSE 0)
    IN  Upto(Len(txns))

MetricsAreSums ==
    LET m == ret.metrics
    IN  /\ m.total_income = SumOfType(call.transactions, "credit", LAMBDA a : a)
        /\ m.total_expenses = SumOfType(call.transactions, "debit", Abs)
        /\ m.net_cash_flow = m.total_income - m.total_expenses

\* savings_rate = net_cash_flow / total_income * 100
SavingsRateIsRatio ==
    LET m == ret.metrics
    IN  m.savings_rate.n * m.total_income = 100 * m.net_cash_flow * m.savings_rate.d

ScenarioValues ==
    call.transactions = ScenarioTxns =>
        /\ ret.metrics.total_income = 30000
        /\ ret.metrics.total_expenses = 16000
        /\ ret.metrics.net_cash_flow = 14000
        /\ RoundTenths(ret.metrics.savings_rate) = Rat(467, 10)
        /\ RiskScoresReturned => ret.risks.savings_risk.level = "Low"

IncomeStabilityTable(volatility_squared) ==
    LET q == volatility_squared
    IN  IF 100 * q.n < 4 * q.d THEN <<1, "Low">>
        ELSE IF 100 * q.n < 16 * q.d THEN <<3, "Medium">>
        ELSE IF 100 * q.n < 36 * q.d THEN <<6, "High">>
        ELSE <<9, "Critical">>

CashFlowTable(net_cash_flow, total_income) ==
    IF net_cash_flow > 0 /\ 10 * net_cash_flow > 2 * total_income THEN <<1, "Low">>
    ELSE IF net_cash_flow > 0 THEN <<3, "Medium">>
    ELSE IF 10 * net_cash_flow > -total_income THEN <<6, "High">>
    ELSE <<9, "Critical">>

SavingsTable(savings_rate) ==
    IF savings_rate.n >= 20 * savings_rate.d THEN <<1, "Low">>
    ELSE IF savings_rate.n >= 10 * savings_rate.d THEN <<3, "Medium">>
    ELSE IF savings_rate.n >= 0 THEN <<6, "High">>
    ELSE <<9, "Critical">>

Tenths(entry) == Risk(Rat(entry[1], 10), entry[2])

\* C20: for the metrics of every transaction list, the income-stability,
\* cash-flow and savings sub-scores are the (score, level) of the threshold
\* tables: volatility < 0.2 / < 0.4 / < 0.6 / else; net cash flow > 0 and > 20%
\* of income / > 0 / > -10% of income / else; savings rate >= 20 / >= 10 /
\* >= 0 / else, each giving (0.1, Low), (0.3, Medium), (0.6, High),
\* (0.9, Critical); this includes the metrics on the thresholds and
\* total_income = 0.
C20_SubScoresFollowTables ==
    RiskScoresReturned =>
        LET m == ret.metrics
        IN  /\ ret.risks.income_stability_risk =
                  Tenths(IncomeStabilityTable(m.income_volatility.sqrt_of))
            /\ ret.risks.cash_flow_risk = Tenths(CashFlowTable(m.net_cash_flow, m.total_income))
            /\ ret.risks.savings_risk = Tenths(SavingsTable(m.savings_rate))

\* volatility 0.2, net cash flow at 20% of income and savings rate 20 at once
C20_Witness ==
    /\ RiskScoresReturned
    /\ ret.metrics.income_volatility = SqrtOf(Rat(4, 100))
    /\ 10 * ret.metrics.net_cash_flow = 2 * ret.metrics.total_income
    /\ ret.metrics.savings_rate = R(20)
    /\ ret.risks.income_stability_risk.level = "Medium"
    /\ ret.risks.cash_flow_risk.level = "Medium"
    /\ ret.risks.savings_risk.level = "Low"

\* the other thresholds and total_income = 0 occur as well
OtherThresholdsReached ==
    /\ RiskScoresReturned
    /\ \/ ret.metrics.income_volatility \in {SqrtOf(Rat(16, 100)), SqrtOf(Rat(36, 100))}
       \/ ret.metrics.savings_rate = R(10)
       \/ ret.metrics.total_income = 0

(* ================== properties of the emergency-fund score ============= *)
OverallRiskReturned == RiskScoresReturned /\ "overall_risk_score" \in DOMAIN ret
HealthScoreReturned == OverallRiskReturned /\ "health_score" \in DOMAIN ret

\* C21: whatever the transactions, the emergency-fund sub-score is
\* (0.9, Critical), the overall risk score is at least 0.26, and the health
\* score the compiler computes is at most 93.5.
C21_EmergencyFundAlwaysCritical ==
    /\ RiskScoresReturned => ret.risks.emergency_fund_risk = Risk(Rat(9, 10), "Critical")
    /\ OverallRiskReturned => RGe(ret.overall_risk_score, Rat(26, 100))
    /\ HealthScoreReturned => RLe(ret.health_score, Rat(935, 10))

\* the best case: every other sub-score is Low and every component of the
\* health score is at its cap
C21_Witness ==
    /\ HealthScoreReturned
    /\ call.transactions = TrackedTxns
    /\ ret.risks.income_stability_risk.level = "Low"
    /\ ret.risks.cash_flow_risk.level = "Low"
    /\ ret.risks.savings_risk.level = "Low"
    /\ ret.overall_risk_score = Rat(26, 100)
    /\ ret.risk_assessment # EmptyDict
    /\ ret.health_score = Rat(935, 10)

(* ================ properties of the fallback assessment ================ *)
FallbackReturned == OverallRiskReturned /\ "ai_assessment" \in DOMAIN ret

\* risk a is ranked before risk b: a higher score, or the same score and an
\* earlier place in the order income stability, cash flow, savings, emergency fund
RankedBefore(a, b) ==
    LET sa == ret.risks[a].score
        sb == ret.risks[b].score
    IN  \/ sa.n * sb.d > sb.n * sa.d
        \/ sa.n * sb.d = sb.n * sa.d /\ Index(RiskNames, a) < Index(RiskNames, b)

TimelineTable ==
    [ income_stability_risk |-> "3-months", cash_flow_risk |-> "immediate",
      savings_risk |-> "1-month", emergency_fund_risk |-> "3-months" ]

LevelTable(overall) ==
    IF 10 * overall.n < 3 * overall.d THEN "Low"
    ELSE IF 10 * overall.n < 5 * overall.d THEN "Medium"
    ELSE IF 10 * overall.n < 7 * overall.d THEN "High"
    ELSE "Critical"

\* C22: the fallback assessment lists exactly three of the four risks, each
\* ranked before the next and before the one left out (higher score first,
\* equal scores in the order income stability, cash flow, savings, emergency
\* fund), with the timeline of its category and its own level, and maps the
\* overall score to Low below 0.3, Medium below 0.5, High below 0.7 and
\* Critical otherwise.
C22_FallbackRanksTopThree ==
    FallbackReturned =>
        LET pr == ret.ai_assessment.priority_risks
            listed == {pr[j].risk : j \in 1..Len(pr)}
        IN  /\ Len(pr) = 3
            /\ listed \subseteq {RiskNames[i] : i \in 1..4}
            /\ Cardinality(listed) = 3
            /\ \A j \in 1..2 : RankedBefore(pr[j].risk, pr[j + 1].risk)
            /\ \A i \in 1..4 : RiskNames[i] \notin listed =>
                   \A j \in 1..3 : RankedBefore(pr[j].risk, RiskNames[i])
            /\ \A j \in 1..3 : /\ pr[j].timeline = TimelineTable[pr[j].risk]
                                /\ pr[j].severity = ret.risks[pr[j].risk].level
            /\ ret.ai_assessment.overall_risk_level = LevelTable(ret.overall_risk_score)

\* savings and the emergency fund tie at 0.9 ahead of cash flow at 0.6; income
\* stability, first in the dict, is left out
C22_Witness ==
    /\ FallbackReturned
    /\ ret.risks.income_stability_risk.level = "Low"
    /\ ret.risks.cash_flow_risk.level = "High"
    /\ ret.risks.savings_risk.level = "Critical"
    /\ [j \in 1..3 |-> ret.ai_assessment.priority_risks[j].risk]
           = <<"savings_risk", "emergency_fund_risk", "cash_flow_risk">>
    /\ ret.ai_assessment.priority_risks[3].timeline = "immediate"
    /\ ret.ai_assessment.overall_risk_level = "High"

\* the overall score falls on a threshold, and all four risks tie
ThresholdAndTieReached ==
    /\ FallbackReturned
    /\ \/ ret.overall_risk_score = Rat(5, 10)
       \/ \A i \in 1..4 : ret.risks[RiskNames[i]].score = Rat(9, 10)

(* ====================== properties of the allocator ==================== *)
SavingsIdx == Index(DEFAULT_CATEGORIES, "savings")
EntertainmentIdx == Index(DEFAULT_CATEGORIES, "entertainment")
MiscellaneousIdx == Index(DEFAULT_CATEGORIES, "miscellaneous")

\* the factor, in tenths, the risk tolerance puts on proportion i
FactorTable(risk_tolerance, i) ==
    IF risk_tolerance = "low"
    THEN (IF i = SavingsIdx THEN 13 ELSE IF i = EntertainmentIdx THEN 7 ELSE 10)
    ELSE IF risk_tolerance = "high"
    THEN (IF i = SavingsIdx THEN 8 ELSE IF i = EntertainmentIdx THEN 12 ELSE 10)
    ELSE 10

RECURSIVE AdjustedUpTo(_, _, _)
AdjustedUpTo(probs, risk_tolerance, k) ==
    IF k = 0 THEN <<>>
    ELSE Append(AdjustedUpTo(probs, risk_tolerance, k - 1),
                Rat(probs[k].n * FactorTable(risk_tolerance, k), probs[k].d * 10))

Adjusted(probs, risk_tolerance) == AdjustedUpTo(probs, risk_tolerance, Len(probs))

\* C23: _adjust_for_risk multiplies savings by 1.3 and entertainment by 0.7
\* for low, savings by 0.8 and entertainment by 1.2 for high, and changes
\* nothing for medium; recommend_budget gives each category the share its
\* proportion has, after that adjustment and then the essential-minimum
\* enforcement, in the sum of those proportions, times total_budget.
C23_AdjustEnforceNormalize ==
    /\ (call # None /\ ret # None /\ call.fn = "_adjust_for_risk") =>
           ret = Adjusted(call.probs, call.risk_tolerance)
    /\ (call # None /\ ret # None /\ call.fn = "recommend_budget") =>
           LET enforced == _enforce_essential_minimums(
                               Adjusted(call.policy_probs, call.risk_tolerance))
               total    == RSumSeq(enforced)
           IN  \A i \in 1..Len(DEFAULT_CATEGORIES) :
                  RMul(ret[DEFAULT_CATEGORIES[i]], total) = RMul(enforced[i], call.total_budget)

\* a low tolerance, a policy that leaves savings below its minimum only before
\* the adjustment, and proportions that no longer sum to 1
C23_Witness ==
    /\ call # None /\ ret # None /\ call.fn = "recommend_budget"
    /\ call.risk_tolerance = "low"
    /\ call.total_budget = R(24)
    /\ call.policy_probs[EntertainmentIdx] = Rat(1, 4)
    /\ call.policy_probs[SavingsIdx] = Rat(1, 4)
    /\ RSumSeq(_enforce_essential_minimums(Adjusted(call.policy_probs, "low"))) # R(1)
    /\ ret # [c \in DOMAIN ret |->
                RMul(_enforce_essential_minimums(call.policy_probs)[Index(DEFAULT_CATEGORIES, c)],
                     call.total_budget)]

EnforceStepped ==
    call # None /\ ret # None /\ call.fn = "_enforce_essential_minimums"

\* the essential category the last iteration looked at was below its minimum
RaisedEssential ==
    LET idx == Index(DEFAULT_CATEGORIES, essentials[ret.i - 1])
    IN  RLt(ret.before[idx], essential_min[essentials[ret.i - 1]])

\* C24 (as claimed): when an essential category is raised to its minimum, the
\* sum of the proportions is unchanged unless the cap of 50% of a donor's
\* value decided a reduction; no donor loses more than half of its value for
\* one deficit, and no donor becomes negative.
C24_DeficitTakenFromDonors ==
    (EnforceStepped /\ RaisedEssential) =>
        /\ ~ret.cap => RSumSeq(ret.adjusted) = RSumSeq(ret.before)
        /\ \A ne \in {EntertainmentIdx, MiscellaneousIdx} :
              /\ RGe(ret.adjusted[ne], RMul(ret.before[ne], Rat(1, 2)))
              /\ RGe(ret.adjusted[ne], R(0))

(* ===================== properties of the detectors ===================== *)
DuplicatesReturned == call # None /\ ret # None /\ call.fn = "_check_duplicates"

OutflowsOf(transactions) == SelectSeq(transactions, LAMBDA t : t.type = "debit")

\* (amount to the nearest hundredth, in hundredths; calendar day; category)
GroupKey(t) == <<(1000 * t.amount + t.thousandths + 5) \div 10, t.date, t.category>>

\* one info alert, carrying the member count, for each group of `considered`
\* with more than one member, and no other alert
OneAlertPerGroup(alerts, considered) ==
    LET Members(key) == {i \in 1..Len(considered) : GroupKey(considered[i]) = key}
        repeated == {GroupKey(considered[i]) : i \in 1..Len(considered)}
        AlertsOf(key) == {j \in 1..Len(alerts) : GroupKey(alerts[j].transactions[1]) = key}
    IN  /\ \A j \in 1..Len(alerts) :
              /\ alerts[j].type = "duplicate"
              /\ alerts[j].severity = "info"
              /\ alerts[j].transactions =
                     SelectSeq(considered,
                               LAMBDA t : GroupKey(t) = GroupKey(alerts[j].transactions[1]))
              /\ alerts[j].count = Len(alerts[j].transactions)
              /\ alerts[j].count > 1
        /\ \A key \in repeated :
              Cardinality(AlertsOf(key)) = IF Cardinality(Members(key)) > 1 THEN 1 ELSE 0

\* the anomaly and the overrun detector give what they give for the outflows alone
OutflowsOnly ==
    MonitorReturned =>
        LET transactions == call.state.transactions
            budget       == call.state.budget_recommendation
        IN  /\ \A rounding \in Rounding :
                  _detect_anomalies(transactions, rounding)
                      = _detect_anomalies(OutflowsOf(transactions), rounding)
            /\ _check_budget_overruns(transactions, budget)
                  = _check_budget_overruns(OutflowsOf(transactions), budget)

\* C25 (as claimed): the three detectors consider only the outflows; duplicate
\* detection groups the outflows by (amount rounded to 2 decimals, calendar
\* day, category) and emits exactly one info alert, carrying the member
\* count, for each group with more than one member.
C25_DetectorsOnOutflowsOnly ==
    /\ OutflowsOnly
    /\ DuplicatesReturned => OneAlertPerGroup(ret.alerts, OutflowsOf(call.transactions))

\* C25 (amended): the anomaly and the overrun detector consider only the
\* outflows; duplicate detection groups all the transactions, inflows
\* included, by (amount rounded to 2 decimals, calendar day, category) and
\* emits exactly one info alert, carrying the member count, for each group
\* with more than one member.
C25_DuplicatesOverAllTransactions ==
    /\ OutflowsOnly
    /\ DuplicatesReturned => OneAlertPerGroup(ret.alerts, call.transactions)

\* two outflows of 10.001 and 10.004 at different times of one day, and an
\* outflow of 10.006 that rounds elsewhere
C25_Witness ==
    /\ DuplicatesReturned
    /\ Len(call.transactions) = 3
    /\ \A i \in 1..3 : call.transactions[i].type = "debit"
    /\ {call.transactions[i].thousandths : i \in 1..3} = {1, 4, 6}
    /\ {call.transactions[i].time : i \in 1..3} = {9, 17}
    /\ Len(ret.alerts) = 1
    /\ ret.alerts[1].count = 2

\* inflows in front of the detectors of process()
InflowBeforeDetectors ==
    /\ MonitorReturned
    /\ \E i \in 1..Len(call.state.transactions) : call.state.transactions[i].type = "credit"
    /\ \E j \in 1..Len(ret.state.monitoring_alerts.alerts) :
          ret.state.monitoring_alerts.alerts[j].type = "budget_overrun"

(* ==================== properties of the priority actions =============== *)
SummaryCompiled == pc = "done" /\ "executive_summary" \in DOMAIN report

MicroActions == Get(Get(report.savings_plan, "strategy", EmptyDict), "micro_actions", <<>>)
PriorityRisks == Get(Get(report.risk_profile, "ai_assessment", EmptyDict), "priority_risks", <<>>)
Adjustments == Get(Get(report.budget_plan, "ai_recommendations", EmptyDict), "adjustments", <<>>)

FirstOnes(s, m) == IF Len(s) <= m THEN s ELSE SubSeq(s, 1, m)

ImmediateRisks == {j \in 1..Len(PriorityRisks) : PriorityRisks[j].timeline = "immediate"}

\* the mitigation of the first priority risk that is immediate, if any
AnyImmediateMitigation ==
    IF ImmediateRisks = {} THEN <<>>
    ELSE <<PriorityRisks[CHOOSE j \in ImmediateRisks : \A k \in ImmediateRisks : j <= k].mitigation>>

\* the mitigation of the first priority risk, if that one is immediate
FirstRiskMitigation ==
    IF 1 \in ImmediateRisks THEN <<PriorityRisks[1].mitigation>> ELSE <<>>

\* C26 (as claimed): the priority actions are the first 2 savings
\* micro-actions, then the mitigation of an immediate priority risk whenever
\* the priority risks contain one, then the first budget adjustment; at most
\* 5 entries.
C26_PriorityActionsAnyImmediate ==
    SummaryCompiled =>
        /\ report.executive_summary.priority_actions =
              FirstOnes(MicroActions, 2) \o AnyImmediateMitigation \o FirstOnes(Adjustments, 1)
        /\ Len(report.executive_summary.priority_actions) <= 5

\* C26 (amended): the priority actions are the first 2 savings micro-actions,
\* then the mitigation of the first priority risk when its timeline is
\* immediate, then the first budget adjustment; at most 5 entries (at most 4
\* are ever collected).
C26_PriorityActionsFirstRiskOnly ==
    SummaryCompiled =>
        /\ report.executive_summary.priority_actions =
              FirstOnes(MicroActions, 2) \o FirstRiskMitigation \o FirstOnes(Adjustments, 1)
        /\ Len(report.executive_summary.priority_actions) <= 5

\* every source has more than it may give, and all three give
C26_Witness ==
    /\ SummaryCompiled
    /\ Len(MicroActions) = 5
    /\ Len(PriorityRisks) = 3
    /\ PriorityRisks[1].timeline = "immediate"
    /\ Len(Adjustments) = 4
    /\ Len(report.executive_summary.priority_actions) = 4

\* an immediate risk that is not the first one; sources that give nothing
LaterImmediateReached ==
    /\ SummaryCompiled
    /\ ImmediateRisks # {}
    /\ 1 \notin ImmediateRisks

EmptySourcesReached ==
    /\ SummaryCompiled
    /\ MicroActions = <<>>
    /\ Adjustments = <<>>
    /\ report.executive_summary.priority_actions = <<>>

(* ================ the workflow path and the fallback path ============== *)
Done(r) == requests # None /\ requests[r].pc = "done"

\* the report the same call returns on the other path
OtherPathReport(r) == requests[r].twin.comprehensive_report

\* C27 (as claimed): for the same transactions and preferences and the same
\* outcomes of the services, the LangGraph workflow and the fallback loop
\* return the same report: the same blocks, the same health score and the
\* same errors list.
C27_PathsAgree ==
    \A r \in RequestIds : Done(r) => requests[r].report = OtherPathReport(r)

\* the two reports agree on everything but their errors lists
PathsAgreeButErrors ==
    \A r \in RequestIds : Done(r) =>
        LET mine  == requests[r].report
            other == OtherPathReport(r)
        IN  /\ DOMAIN mine = DOMAIN other
            /\ \A k \in DOMAIN mine \ {"errors"} : mine[k] = other[k]

\* the errors of the two paths hold the same entries, whatever their count
SameErrorEntries ==
    \A r \in RequestIds : (Done(r) /\ "errors" \in DOMAIN requests[r].report) =>
        Entries(requests[r].report.errors) = Entries(OtherPathReport(r).errors)

(* ===================== the statistical anomaly detector ================ *)
AnomalyAlerts ==
    SelectSeq(ret.state.monitoring_alerts.alerts, LAMBDA a : a.type = "anomaly")

UrgentAnomalies == SelectSeq(AnomalyAlerts, LAMBDA a : a.severity = "urgent")

AllOutflowsEqual ==
    \A i, j \in 1..Len(MonitorDebits) :
        Abs(MonitorDebits[i].amount) = Abs(MonitorDebits[j].amount)

\* no anomaly alert below `any` outflows, no urgent one below `urgent`
\* outflows, and none when all the outflow amounts are equal
AnomaliesNeed(any, urgent) ==
    MonitorReturned =>
        /\ Len(MonitorDebits) < any => AnomalyAlerts = <<>>
        /\ Len(MonitorDebits) < urgent => UrgentAnomalies = <<>>
        /\ AllOutflowsEqual => AnomalyAlerts = <<>>

\* C28 (as claimed): the detector emits no anomaly alert for fewer than 8
\* outflows, no urgent anomaly alert for fewer than 11 outflows, and no
\* anomaly alert when all the outflow amounts are equal.
C28_NoUrgentBelowEleven == AnomaliesNeed(8, 11)

\* C28 (amended): the detector emits no anomaly alert for fewer than 8
\* outflows, no urgent anomaly alert for fewer than 10 outflows, and no
\* anomaly alert when all the outflow amounts are equal.
C28_NoUrgentBelowTen == AnomaliesNeed(8, 10)

\* nine outflows, one of them far larger: a warning and nothing urgent
C28_Witness ==
    /\ MonitorReturned
    /\ Len(MonitorDebits) = 9
    /\ \E i \in 1..9 : LoneLargeOutflow(MonitorDebits, i)
    /\ Len(AnomalyAlerts) = 1
    /\ UrgentAnomalies = <<>>

\* seven outflows, one of them far larger, and no anomaly alert
SevenOutflowsNoAlert ==
    /\ MonitorReturned
    /\ Len(MonitorDebits) = 7
    /\ \E i \in 1..7 : LoneLargeOutflow(MonitorDebits, i)
    /\ AnomalyAlerts = <<>>

\* eight outflows and a warning
EightOutflowsWarning ==
    /\ MonitorReturned
    /\ Len(MonitorDebits) = 8
    /\ AnomalyAlerts # <<>>

\* ten outflows with the large one exactly on mean + 3 std: urgent when the
\* computed threshold fell below it, a warning otherwise
TenOutflowsUrgent ==
    /\ MonitorReturned
    /\ Len(MonitorDebits) = 10
    /\ \A i \in 1..9 : Abs(MonitorDebits[i].amount) = 1
    /\ Abs(MonitorDebits[10].amount) = 60
    /\ Len(UrgentAnomalies) = 1

TenOutflowsWarning ==
    /\ MonitorReturned
    /\ Len(MonitorDebits) = 10
    /\ \E i \in 1..10 : LoneLargeOutflow(MonitorDebits, i)
    /\ Len(AnomalyAlerts) = 1
    /\ UrgentAnomalies = <<>>

\* at least five equal outflows, so that the thresholds are computed
EqualOutflowsScanned ==
    /\ MonitorReturned
    /\ Len(MonitorDebits) >= 5
    /\ AllOutflowsEqual

(* ============ the first-ranked risk and the priority actions =========== *)
PriorityActionsReturned == FallbackReturned /\ "priority_actions" \in DOMAIN ret

\* the mitigation of the cash-flow risk, whose timeline is immediate
CashFlowMitigation ==
    LET ranked == ret.ai_assessment.priority_risks
    IN  {ranked[j].mitigation : j \in {i \in 1..Len(ranked) : ranked[i].risk = "cash_flow_risk"}}

Level(name) == ret.risks[name].level

\* C29: when the Risk Assessor wrote its fallback assessment, the priority
\* actions hold the immediate mitigation of the cash-flow risk exactly when
\* the cash-flow risk is Critical and the income-stability risk is not.
C29_CashFlowMitigationIffFirst ==
    PriorityActionsReturned =>
        /\ ~IsExc(ret.priority_actions)
        /\ (\E m \in CashFlowMitigation : m \in Entries(ret.priority_actions.value))
             <=> (Level("cash_flow_risk") = "Critical"
                    /\ Level("income_stability_risk") # "Critical")

\* cash flow Critical and income steady: the mitigation is among the actions
C29_Witness ==
    /\ PriorityActionsReturned
    /\ Level("cash_flow_risk") = "Critical"
    /\ Level("income_stability_risk") = "Low"
    /\ "cash_flow_risk" \in Entries(ret.priority_actions.value)

\* both Critical: the cash-flow risk is ranked second and its mitigation is left out
BothCriticalNoMitigation ==
    /\ PriorityActionsReturned
    /\ Level("cash_flow_risk") = "Critical"
    /\ Level("income_stability_risk") = "Critical"
    /\ ret.ai_assessment.priority_risks[2].risk = "cash_flow_risk"
    /\ "cash_flow_risk" \notin Entries(ret.priority_actions.value)

\* the cash-flow risk is ranked but not Critical
RankedNotCritical ==
    /\ PriorityActionsReturned
    /\ Level("cash_flow_risk") = "High"
    /\ CashFlowMitigation # {}
    /\ "cash_flow_risk" \notin Entries(ret.priority_actions.value)

(* ================== what the health score depends on =================== *)
\* the dict d without the keys outside `keys`
KeepOnly(d, keys) == [k \in DOMAIN d \cap keys |-> d[k]]

\* blocks other stages could have left, and other errors lists
OtherBlocks ==
    { EmptyDict,
      [ error |-> "No data" ],
      [ alerts |-> <<[type |-> "anomaly", severity |-> "urgent"]>>,
        strategy |-> [micro_actions |-> <<"Brew coffee at home">>],
        target_savings |-> R(1),
        ai_recommendations |-> [adjustments |-> <<"Cut entertainment">>] ] }

OtherErrors == {<<>>, <<ErrorEntry("Optimizer", "TypeError"), ErrorEntry("Monitor", "TypeError")>>}

\* states that agree with st on financial_analysis.metrics and on
\* risk_assessment.overall_risk_score (present or absent), and differ elsewhere
Agreeing(st) ==
    { [st EXCEPT !.budget_recommendation = block,
                 !.savings_strategy      = block,
                 !.monitoring_alerts     = block,
                 !.errors                = errors,
                 !.financial_analysis    = KeepOnly(@, {"metrics"}),
                 !.risk_assessment       = KeepOnly(@, {"overall_risk_score"})] :
        block \in OtherBlocks, errors \in OtherErrors }

\* C30: the health score of the report is the score of every state that
\* agrees with the compiled one on financial_analysis.metrics and
\* risk_assessment.overall_risk_score, whatever its budget_recommendation,
\* savings_strategy, monitoring_alerts and errors hold; the score in
\* financial_overview equals the score in executive_summary.
C30_HealthScoreFromMetricsAndRisk ==
    SummaryCompiled =>
        /\ report.financial_overview.health_score = report.executive_summary.health_score
        /\ \A other \in Agreeing(state) :
              _calculate_health_score(other) = report.executive_summary.health_score

\* a report compiled after two stages raised, with alerts and a budget in the
\* state, whose score is that of the bare metrics and risk score
C30_Witness ==
    /\ SummaryCompiled
    /\ Len(state.errors) >= 2
    /\ state.budget_recommendation # EmptyDict
    /\ "overall_risk_score" \in DOMAIN state.risk_assessment
    /\ "metrics" \in DOMAIN state.financial_analysis
    /\ DOMAIN state.financial_analysis # {"metrics"}
    /\ \E other \in Agreeing(state) :
          /\ other.errors = <<>>
          /\ other.budget_recommendation = EmptyDict
          /\ _calculate_health_score(other) = report.executive_summary.health_score

\* a report compiled after the Risk Assessor raised: no overall_risk_score
NoRiskScoreCompiled ==
    /\ SummaryCompiled
    /\ "metrics" \in DOMAIN state.financial_analysis
    /\ "overall_risk_score" \notin DOMAIN state.risk_assessment

====
